---- MODULE Spec2Model ----
(***************************************************************************)
(* Request-gating pipeline of the problem5 Express API: bearer-token       *)
(* authentication, role and ownership authorization, rate limiting and     *)
(* the order in which app.ts and the routers mount them.                   *)
(*                                                                         *)
(* Six state machines share the variables below:                           *)
(*   Spec        one HTTP request at a time through the middleware chain   *)
(*               of every protected route, plus the access gates applied   *)
(*               to inputs drawn in Init;                                  *)
(*   SpecAuth    the auth service (register, login, authenticate and the   *)
(*               protected auth handlers) against a Principal Store that   *)
(*               changes between and during requests;                      *)
(*   SpecLimiter one express-rate-limit instance under concurrently        *)
(*               executing requests;                                       *)
(*   SpecFn      the sanitizer, the validator, the token service and the   *)
(*               error handler applied on their own to drawn inputs;       *)
(*   SpecRegister  register calls that interleave;                         *)
(*   SpecShutdown  the server process from a signal to its exit.           *)
(***************************************************************************)
EXTENDS Integers, Sequences, FiniteSets, TLC

VARIABLES
    users,      \* Principal Store: email -> user row (prisma.user)
    resources,  \* Resource Store: resource id -> row (prisma.resource)
    now,        \* clock, in ticks
    req,        \* the request travelling through the middleware chain
    hits,       \* rate-limit buckets: limiter -> address -> count (MemoryStore)
    gate,       \* an access gate applied on its own to drawn inputs
    held,       \* SpecAuth: the access token the client received last
    slots,      \* SpecLimiter: the concurrently executing requests
    win,        \* SpecLimiter: per address, what happened in the current window
    fn,         \* SpecFn: a function of the service applied on its own to a drawn input
    proc        \* SpecRegister: register calls in flight; SpecShutdown: the server process

vars == <<users, resources, now, req, hits, gate, held, slots, win, fn, proc>>

-----------------------------------------------------------------------------
(* Values *)

Roles == {"GUEST", "USER", "ADMIN"}
Emails == {"admin", "user", "other"}
Passwords == {"pw1", "pw2"}
ResourceIds == {"r1"}
Ips == {"ip1", "ip2"}

\* A user id is opaque and never reused: the email it was created for and the
\* number of rows of that email deleted before it.
NoId == <<"none", 0>>
IdOf(email, gen) == <<email, gen>>

\* bcrypt.hash and bcrypt.compare: the row stores the hash, never the password
bcryptHash(password) == "$2b$10$" \o password
bcryptCompare(password, hash) == bcryptHash(password) = hash

NoUserRow ==
    [exists |-> FALSE, gen |-> 0, role |-> "USER", isActive |-> FALSE,
     password |-> bcryptHash("pw1")]
UserRow(gen, role, isActive, password) ==
    [exists |-> TRUE, gen |-> gen, role |-> role, isActive |-> isActive, password |-> password]

\* userRepository.findById / findByEmail: the email whose row holds the id, or "none"
findByEmail(store, email) ==
    IF email \in Emails /\ store[email].exists THEN email ELSE "none"
findById(store, id) ==
    IF id[1] \in Emails /\ store[id[1]].exists /\ store[id[1]].gen = id[2] THEN id[1] ELSE "none"

\* req.user
NoUser == [id |-> NoId, email |-> "none", role |-> "none", isActive |-> FALSE]

\* AppError and its subclasses: a status code and a message
NoErr == [statusCode |-> 0, message |-> ""]
AppError(statusCode, message) == [statusCode |-> statusCode, message |-> message]
BadRequestError(message) == AppError(400, message)
UnauthorizedError(message) == AppError(401, message)
ForbiddenError(message) == AppError(403, message)
NotFoundError(message) == AppError(404, message)
ConflictError(message) == AppError(409, message)
ValidationError(message) == AppError(422, message)

-----------------------------------------------------------------------------
(* Tokens: jwt.sign / jwt.verify *)

NoToken == [userId |-> NoId, email |-> "none", role |-> "none", exp |-> 0, sig |-> "none"]
SignedToken(userId, email, role, exp) ==
    [userId |-> userId, email |-> email, role |-> role, exp |-> exp, sig |-> "good"]
\* a token signed with another secret, tampered with, or malformed
ForgedToken(userId, email, role, exp) ==
    [userId |-> userId, email |-> email, role |-> role, exp |-> exp, sig |-> "bad"]

\* JWT_EXPIRES_IN, in ticks of the clock
TokenTtl == 1

\* AuthService.verifyToken: the signature is checked before the expiry
verifyTokenExpiryFirst(token, t) ==
    IF t >= token.exp THEN UnauthorizedError("Token has expired")
    ELSE IF token.sig # "good" THEN UnauthorizedError("Invalid token")
    ELSE NoErr
verifyToken(token, t) ==
    IF token.sig # "good" THEN UnauthorizedError("Invalid token")
    ELSE IF t >= token.exp THEN UnauthorizedError("Token has expired")
    ELSE NoErr

\* the payload jwt.verify hands back for a token it accepts
decoded(token) == [userId |-> token.userId, email |-> token.email, role |-> token.role]

\* AuthService.generateLoginResponse: the access token of the login response
generateLoginResponseDefaultRole(email, row, t) ==
    SignedToken(IdOf(email, row.gen), email, "USER", t + TokenTtl)
generateLoginResponse(email, row, t) ==
    SignedToken(IdOf(email, row.gen), email, row.role, t + TokenTtl)

-----------------------------------------------------------------------------
(* Access gates: rbac.middleware.ts *)

requireRoleIgnoresRole(allowedRoles, user) ==
    IF user = NoUser THEN UnauthorizedError("Authentication required") ELSE NoErr
requireRole(allowedRoles, user) ==
    IF user = NoUser THEN UnauthorizedError("Authentication required")
    ELSE IF user.role \notin allowedRoles THEN ForbiddenError("Access denied. Required role(s)")
    ELSE NoErr

requireAdmin(user) == requireRole({"ADMIN"}, user)
requireUserOrAdmin(user) == requireRole({"USER", "ADMIN"}, user)

\* the gate never looks at the resource: for a non-admin it calls next() and
\* leaves the ownership check to the service layer
requireOwnershipOrAdmin(user, ownerId) ==
    IF user = NoUser THEN UnauthorizedError("Authentication required")
    ELSE IF user.role = "ADMIN" THEN NoErr
    ELSE NoErr

-----------------------------------------------------------------------------
(* Resource service: resource.service.ts *)

NoResource == [exists |-> FALSE, ownerId |-> NoId, title |-> "t0"]
Resource(ownerId, title) == [exists |-> TRUE, ownerId |-> ownerId, title |-> title]

\* the authorization check shared by getById, update and delete
serviceAccessNoOwnerCheck(store, id, userId, userRole, what) ==
    IF id \notin ResourceIds \/ ~store[id].exists THEN NotFoundError("Resource not found")
    ELSE NoErr
serviceAccess(store, id, userId, userRole, what) ==
    IF id \notin ResourceIds \/ ~store[id].exists THEN NotFoundError("Resource not found")
    ELSE IF userRole # "ADMIN" /\ store[id].ownerId # userId
         THEN ForbiddenError("You do not have permission to " \o what \o " this resource")
    ELSE NoErr


-----------------------------------------------------------------------------
(* Rate limiters: rateLimiter.middleware.ts (express-rate-limit, MemoryStore) *)

ApiMax == 100
AuthMax == 5
CreateMax == 50

apiLimiterSkipsSuccessful ==
    [name |-> "api", max |-> ApiMax, skipSuccessfulRequests |-> TRUE,
     message |-> "Too many requests, please try again later"]
apiLimiter ==
    [name |-> "api", max |-> ApiMax, skipSuccessfulRequests |-> FALSE,
     message |-> "Too many requests, please try again later"]
authLimiter ==
    [name |-> "auth", max |-> AuthMax, skipSuccessfulRequests |-> TRUE,
     message |-> "Too many authentication attempts, please try again later"]
createResourceLimiter ==
    [name |-> "create", max |-> CreateMax, skipSuccessfulRequests |-> FALSE,
     message |-> "Too many resources created, please try again later"]
Limiters == {apiLimiter, authLimiter, createResourceLimiter}
LimiterNames == {"api", "auth", "create"}

\* store.increment(key) and store.decrement(key)
incrementLosesUpdate(count) == count
increment(count) == count + 1
decrement(count) == IF count > 0 THEN count - 1 ELSE count

\* the request is over the limit: totalHits > max
overLimitOffByOne(policy, totalHits) == totalHits > policy.max + 1
overLimit(policy, totalHits) == totalHits > policy.max

\* requestWasSuccessful: response.statusCode < 400
requestWasSuccessful(statusCode) == statusCode < 400

EmptyBuckets == [l \in LimiterNames |-> [ip \in Ips |-> 0]]

-----------------------------------------------------------------------------
(* Routes: app.ts, resource.routes.ts, auth.routes.ts *)

ResourceRoutes == {"POST /api/resources", "GET /api/resources", "GET /api/resources/stats",
                   "GET /api/resources/:id", "PUT /api/resources/:id",
                   "DELETE /api/resources/:id"}
AuthPublicRoutes == {"POST /api/auth/register", "POST /api/auth/login"}
AuthProtectedRoutes == {"GET /api/auth/me", "POST /api/auth/change-password"}
ProtectedRoutes == ResourceRoutes \cup AuthProtectedRoutes

\* app.use(sanitizeBody); app.use(apiLimiter): mounted before every router
appChainLimiterFirst == <<"apiLimiter", "sanitizeBody">>
appChain == <<"sanitizeBody", "apiLimiter">>

\* router.use(authenticate); router.use(requireUserOrAdmin); then the route's own handlers
resourceRouterChain(route) ==
    <<"authenticate", "requireUserOrAdmin">> \o
    CASE route = "POST /api/resources" ->
            <<"createResourceLimiter", "validate(createResourceSchema)", "createResource">>
      [] route = "GET /api/resources" -> <<"validate(listResourcesSchema)", "listResources">>
      [] route = "GET /api/resources/stats" -> <<"getResourceStats">>
      [] route = "GET /api/resources/:id" -> <<"validate(resourceIdSchema)", "getResource">>
      [] route = "PUT /api/resources/:id" ->
            <<"validate(resourceIdSchema)", "validate(updateResourceSchema)", "updateResource">>
      [] route = "DELETE /api/resources/:id" ->
            <<"validate(resourceIdSchema)", "deleteResource">>

authRouterChain(route) ==
    CASE route = "POST /api/auth/register" ->
            <<"authLimiter", "validate(registerSchema)", "register">>
      [] route = "POST /api/auth/login" -> <<"authLimiter", "validate(loginSchema)", "login">>
      [] route = "GET /api/auth/me" -> <<"authenticate", "getCurrentUser">>
      [] route = "POST /api/auth/change-password" -> <<"authenticate", "changePassword">>

Chain(route) ==
    appChain \o (IF route \in ResourceRoutes THEN resourceRouterChain(route)
                 ELSE authRouterChain(route))

Controllers == {"createResource", "listResources", "getResourceStats", "getResource",
                "updateResource", "deleteResource", "getCurrentUser", "changePassword"}
RateLimitGates == {"apiLimiter", "createResourceLimiter"}
BodySchemas == {"validate(createResourceSchema)", "validate(listResourcesSchema)",
                "validate(updateResourceSchema)"}

-----------------------------------------------------------------------------
(* The request in the chain *)

NoBody == [ok |-> TRUE, title |-> "t0", currentPassword |-> "pw1", newPassword |-> "pw1",
           email |-> "none", password |-> "pw1", role |-> "none"]

\* found: what the Principal Store held for the request's principal when the handler
\* looked it up ("missing", "inactive", "active"; "-" before any lookup)
NoReq == [state |-> "idle", route |-> "none", ip |-> "ip1", token |-> NoToken, id |-> "none",
          body |-> NoBody, pc |-> 0, user |-> NoUser, found |-> "-", trace |-> <<>>,
          errors |-> 0, res |-> NoErr, accessToken |-> NoToken]

RowState(store, e) ==
    IF e = "none" THEN "missing" ELSE IF store[e].isActive THEN "active" ELSE "inactive"

\* the handler Express runs next for the request
Current(r) == IF r.state = "running" THEN Chain(r.route)[r.pc] ELSE "none"

\* next(): on to the following handler of the chain
Next_(r, name) == [r EXCEPT !.pc = @ + 1, !.trace = Append(@, name)]

\* errorHandler, AppError branch: status and message of the error
errorHandler(error) == [statusCode |-> error.statusCode, message |-> error.message]

\* next(error): Express skips every remaining handler and runs errorHandler
NextErrorFallsThrough(r, name, error) ==
    [r EXCEPT !.pc = @ + 1, !.trace = Append(Append(@, name), "errorHandler"),
              !.errors = @ + 1, !.res = errorHandler(error)]
NextError(r, name, error) ==
    [r EXCEPT !.state = "done", !.trace = Append(Append(@, name), "errorHandler"),
              !.errors = @ + 1, !.res = errorHandler(error)]

\* res.status(statusCode).json(...) by the handler itself
Respond(r, name, statusCode, message) ==
    [r EXCEPT !.state = "done", !.trace = Append(@, name),
              !.res = [statusCode |-> statusCode, message |-> message]]


-----------------------------------------------------------------------------
(* Middleware and controllers *)

\* auth.middleware.ts authenticate: the error it forwards, or the req.user it attaches
authenticateTrustsToken(store, token, t) ==
    IF token = NoToken
    THEN [error |-> UnauthorizedError("No token provided"), user |-> NoUser]
    ELSE IF verifyToken(token, t) # NoErr
    THEN [error |-> verifyToken(token, t), user |-> NoUser]
    ELSE [error |-> NoErr,
          user |-> [id |-> token.userId, email |-> token.email, role |-> token.role,
                    isActive |-> TRUE]]
authenticate(store, token, t) ==
    IF token = NoToken
    THEN [error |-> UnauthorizedError("No token provided"), user |-> NoUser]
    ELSE IF verifyToken(token, t) # NoErr
    THEN [error |-> verifyToken(token, t), user |-> NoUser]
    ELSE LET e == findById(store, token.userId) IN
         IF e = "none"
         THEN [error |-> UnauthorizedError("User not found"), user |-> NoUser]
         ELSE IF ~store[e].isActive
         THEN [error |-> UnauthorizedError("Account is inactive"), user |-> NoUser]
         ELSE [error |-> NoErr,
               user |-> [id |-> IdOf(e, store[e].gen), email |-> e, role |-> store[e].role,
                         isActive |-> store[e].isActive]]

\* validate(schema): whether schema.parseAsync({body, query, params}) rejects the request
validateRejects(name, r) ==
    IF name = "validate(resourceIdSchema)" THEN r.id = "bad" ELSE ~r.body.ok

\* changePassword that does not compare currentPassword with the stored hash
changePasswordServiceNoCompare(store, userId, currentPassword, newPassword) ==
    LET e == findById(store, userId) IN
    IF e = "none"
    THEN [error |-> BadRequestError("User not found"), store |-> store]
    ELSE [error |-> NoErr, store |-> [store EXCEPT ![e].password = bcryptHash(newPassword)]]

\* AuthService.changePassword: the error thrown, or the store after the update
changePasswordService(store, userId, currentPassword, newPassword) ==
    LET e == findById(store, userId) IN
    IF e = "none"
    THEN [error |-> BadRequestError("User not found"), store |-> store]
    ELSE IF ~bcryptCompare(currentPassword, store[e].password)
    THEN [error |-> UnauthorizedError("Current password is incorrect"), store |-> store]
    ELSE [error |-> NoErr, store |-> [store EXCEPT ![e].password = bcryptHash(newPassword)]]

\* a rate limiter in the chain: count the request, then answer 429 or call next()
RateLimit(gateName, policy) ==
    /\ Current(req) = gateName
    /\ LET totalHits == increment(hits[policy.name][req.ip]) IN
       /\ hits' = [hits EXCEPT ![policy.name][req.ip] = totalHits]
       /\ req' = IF overLimit(policy, totalHits)
                 THEN Respond(req, gateName, 429, policy.message)
                 ELSE Next_(req, gateName)
    /\ UNCHANGED <<users, resources, now, gate, held, slots, win, fn, proc>>

SanitizeBody ==
    /\ Current(req) = "sanitizeBody"
    /\ req' = Next_(req, "sanitizeBody")
    /\ UNCHANGED <<users, resources, now, hits, gate, held, slots, win, fn, proc>>

ApiLimiter == RateLimit("apiLimiter", apiLimiter)

CreateResourceLimiter == RateLimit("createResourceLimiter", createResourceLimiter)

Authenticate ==
    /\ Current(req) = "authenticate"
    /\ LET a == authenticate(users, req.token, now)
           found == RowState(users, findById(users, req.token.userId)) IN
       req' = IF a.error # NoErr
              THEN [NextError(req, "authenticate", a.error) EXCEPT !.found = found]
              ELSE [Next_(req, "authenticate") EXCEPT !.user = a.user, !.found = found]
    /\ UNCHANGED <<users, resources, now, hits, gate, held, slots, win, fn, proc>>

RequireUserOrAdmin ==
    /\ Current(req) = "requireUserOrAdmin"
    /\ LET error == requireUserOrAdmin(req.user) IN
       req' = IF error # NoErr THEN NextError(req, "requireUserOrAdmin", error)
              ELSE Next_(req, "requireUserOrAdmin")
    /\ UNCHANGED <<users, resources, now, hits, gate, held, slots, win, fn, proc>>

Validate ==
    /\ \E name \in BodySchemas \cup {"validate(resourceIdSchema)"} :
          /\ Current(req) = name
          /\ req' = IF validateRejects(name, req)
                    THEN NextError(req, name, ValidationError("Validation failed"))
                    ELSE Next_(req, name)
    /\ UNCHANGED <<users, resources, now, hits, gate, held, slots, win, fn, proc>>

CreateResource ==
    /\ Current(req) = "createResource"
    /\ \E id \in ResourceIds :
          /\ ~resources[id].exists
          /\ resources' = [resources EXCEPT ![id] = Resource(req.user.id, req.body.title)]
    /\ req' = Respond(req, "createResource", 201, "Resource created successfully")
    /\ UNCHANGED <<users, now, hits, gate, held, slots, win, fn, proc>>

ListResources ==
    /\ Current(req) = "listResources"
    /\ req' = Respond(req, "listResources", 200, "Resources retrieved successfully")
    /\ UNCHANGED <<users, resources, now, hits, gate, held, slots, win, fn, proc>>

GetResourceStats ==
    /\ Current(req) = "getResourceStats"
    /\ req' = Respond(req, "getResourceStats", 200, "Statistics retrieved successfully")
    /\ UNCHANGED <<users, resources, now, hits, gate, held, slots, win, fn, proc>>

GetResource ==
    /\ Current(req) = "getResource"
    /\ LET error == serviceAccess(resources, req.id, req.user.id, req.user.role, "view") IN
       req' = IF error # NoErr THEN NextError(req, "getResource", error)
              ELSE Respond(req, "getResource", 200, "Resource retrieved successfully")
    /\ UNCHANGED <<users, resources, now, hits, gate, held, slots, win, fn, proc>>

UpdateResource ==
    /\ Current(req) = "updateResource"
    /\ LET error == serviceAccess(resources, req.id, req.user.id, req.user.role, "update") IN
       IF error # NoErr
       THEN /\ req' = NextError(req, "updateResource", error)
            /\ UNCHANGED resources
       ELSE /\ req' = Respond(req, "updateResource", 200, "Resource updated successfully")
            /\ resources' = [resources EXCEPT ![req.id].title = req.body.title]
    /\ UNCHANGED <<users, now, hits, gate, held, slots, win, fn, proc>>

DeleteResource ==
    /\ Current(req) = "deleteResource"
    /\ LET error == serviceAccess(resources, req.id, req.user.id, req.user.role, "delete") IN
       IF error # NoErr
       THEN /\ req' = NextError(req, "deleteResource", error)
            /\ UNCHANGED resources
       ELSE /\ req' = Respond(req, "deleteResource", 200, "Resource deleted successfully")
            /\ resources' = [resources EXCEPT ![req.id] = NoResource]
    /\ UNCHANGED <<users, now, hits, gate, held, slots, win, fn, proc>>

GetCurrentUser ==
    /\ Current(req) = "getCurrentUser"
    /\ req' = Respond(req, "getCurrentUser", 200, "User profile retrieved successfully")
    /\ UNCHANGED <<users, resources, now, hits, gate, held, slots, win, fn, proc>>

ChangePassword ==
    /\ Current(req) = "changePassword"
    /\ LET c == changePasswordService(users, req.user.id, req.body.currentPassword,
                                      req.body.newPassword) IN
       /\ users' = c.store
       /\ req' = IF c.error # NoErr THEN NextError(req, "changePassword", c.error)
                 ELSE Respond(req, "changePassword", 200, "Password changed successfully")
    /\ UNCHANGED <<resources, now, hits, gate, held, slots, win, fn, proc>>


-----------------------------------------------------------------------------
(* Requests that arrive *)

\* the bearer tokens a client presents: none, one that fails the signature check,
\* an expired one, and unexpired ones issued to the three principals
PipelineTokens ==
    {NoToken,
     ForgedToken(IdOf("admin", 0), "admin", "ADMIN", now + TokenTtl),
     SignedToken(IdOf("user", 0), "user", "USER", now),
     SignedToken(IdOf("admin", 0), "admin", "ADMIN", now + TokenTtl),
     SignedToken(IdOf("user", 0), "user", "USER", now + TokenTtl),
     SignedToken(IdOf("other", 0), "other", "USER", now + TokenTtl)}

\* req.params.id: a stored resource, a well-formed id of no resource, a malformed id
IdsFor(route) ==
    IF route \in {"GET /api/resources/:id", "PUT /api/resources/:id", "DELETE /api/resources/:id"}
    THEN ResourceIds \cup {"r9", "bad"}
    ELSE {"none"}

BodiesFor(route) ==
    CASE route \in {"POST /api/resources", "GET /api/resources"} ->
            {[NoBody EXCEPT !.ok = ok] : ok \in BOOLEAN}
      [] route = "PUT /api/resources/:id" ->
            {[NoBody EXCEPT !.ok = ok, !.title = "t1"] : ok \in BOOLEAN}
      [] route = "POST /api/auth/change-password" ->
            {[NoBody EXCEPT !.currentPassword = c, !.newPassword = n] :
                c \in Passwords, n \in Passwords}
      [] OTHER -> {NoBody}

\* A request arrives from address ip1. The buckets it meets are the ones other
\* requests of that address left: an empty window or a window at its ceiling.
NewRequest ==
    /\ gate.kind = "none"
    /\ req.state = "idle"
    /\ \E route \in ProtectedRoutes :
          /\ route = "POST /api/resources" => \E id \in ResourceIds : ~resources[id].exists
          /\ \E token \in PipelineTokens, id \in IdsFor(route), body \in BodiesFor(route) :
                req' = [NoReq EXCEPT !.state = "running", !.route = route, !.token = token,
                                     !.id = id, !.body = body, !.pc = 1]
          /\ \E api0 \in {0, ApiMax},
                create0 \in (IF route = "POST /api/resources" THEN {0, CreateMax} ELSE {0}) :
                hits' = [hits EXCEPT !["api"]["ip1"] = api0, !["create"]["ip1"] = create0]
    /\ UNCHANGED <<users, resources, now, gate, held, slots, win, fn, proc>>

\* the response has been sent: the request is over
ResponseSent ==
    /\ req.state = "done"
    /\ req' = NoReq
    /\ UNCHANGED <<users, resources, now, hits, gate, held, slots, win, fn, proc>>

-----------------------------------------------------------------------------
(* The access gates applied on their own *)

\* no process of its own
NoProc == [kind |-> "none"]

\* no function is applied on its own
NoFn == [kind |-> "none", arg |-> "none", done |-> FALSE, out |-> "none"]

NoGate == [kind |-> "none", user |-> NoUser, allowedRoles |-> {}, ownerId |-> NoId,
           done |-> FALSE, error |-> NoErr]

\* req.user as a gate may find it: unset, or any principal of any role
GateUsers ==
    {NoUser} \cup {[id |-> IdOf(e, 0), email |-> e, role |-> r, isActive |-> TRUE] :
                      e \in Emails, r \in Roles}

GateInputs ==
    {[NoGate EXCEPT !.kind = "requireRole", !.user = u, !.allowedRoles = a] :
        u \in GateUsers, a \in (SUBSET Roles) \ {{}}}
    \cup {[NoGate EXCEPT !.kind = k, !.user = u] :
        k \in {"requireAdmin", "requireUserOrAdmin"}, u \in GateUsers}
    \cup {[NoGate EXCEPT !.kind = "requireOwnershipOrAdmin", !.user = u, !.ownerId = IdOf(o, 0)] :
        u \in GateUsers, o \in Emails}

ApplyRequireRole ==
    /\ gate.kind \in {"requireRole", "requireAdmin", "requireUserOrAdmin"}
    /\ ~gate.done
    /\ gate' = [gate EXCEPT !.done = TRUE,
                   !.error = CASE gate.kind = "requireRole" ->
                                     requireRole(gate.allowedRoles, gate.user)
                               [] gate.kind = "requireAdmin" -> requireAdmin(gate.user)
                               [] gate.kind = "requireUserOrAdmin" ->
                                     requireUserOrAdmin(gate.user)]
    /\ UNCHANGED <<users, resources, now, req, hits, held, slots, win, fn, proc>>

ApplyRequireOwnershipOrAdmin ==
    /\ gate.kind = "requireOwnershipOrAdmin"
    /\ ~gate.done
    /\ gate' = [gate EXCEPT !.done = TRUE,
                            !.error = requireOwnershipOrAdmin(gate.user, gate.ownerId)]
    /\ UNCHANGED <<users, resources, now, req, hits, held, slots, win, fn, proc>>

-----------------------------------------------------------------------------
(* Spec: the middleware chains of the protected routes *)

\* prisma/seed.ts: an admin, a regular user and a resource of the regular user
SeedUsers ==
    [e \in Emails |-> CASE e = "admin" -> UserRow(0, "ADMIN", TRUE, bcryptHash("pw1"))
                        [] e = "user" -> UserRow(0, "USER", TRUE, bcryptHash("pw1"))
                        [] OTHER -> NoUserRow]
SeedResources == [id \in ResourceIds |-> Resource(IdOf("user", 0), "t0")]

\* the third principal: registered, then possibly demoted, deactivated or deleted
OtherRows == {UserRow(0, "USER", TRUE, bcryptHash("pw1")), UserRow(0, "GUEST", TRUE, bcryptHash("pw1")),
              UserRow(0, "USER", FALSE, bcryptHash("pw1")), NoUserRow}

NoSlots == <<>>
NoWin == <<>>

Init ==
    /\ fn = NoFn
    /\ proc = NoProc
    /\ resources = SeedResources
    /\ now = 0
    /\ req = NoReq
    /\ hits = EmptyBuckets
    /\ held = NoToken
    /\ slots = NoSlots
    /\ win = NoWin
    /\ \/ /\ gate = NoGate
          /\ \E o \in OtherRows : users = [SeedUsers EXCEPT !["other"] = o]
       \/ /\ gate \in GateInputs
          /\ users = SeedUsers

Next ==
    \/ NewRequest
    \/ SanitizeBody
    \/ ApiLimiter
    \/ Authenticate
    \/ RequireUserOrAdmin
    \/ CreateResourceLimiter
    \/ Validate
    \/ CreateResource
    \/ ListResources
    \/ GetResourceStats
    \/ GetResource
    \/ UpdateResource
    \/ DeleteResource
    \/ GetCurrentUser
    \/ ChangePassword
    \/ ResponseSent
    \/ ApplyRequireRole
    \/ ApplyRequireOwnershipOrAdmin

Spec == Init /\ [][Next]_vars


-----------------------------------------------------------------------------
(* SpecAuth: the auth service against a changing Principal Store *)

MaxTime == 1
MaxDeletes == 1

\* register with the role of the row taken from the request body when it has one
registerServiceRoleFromBody(store, data, t) ==
    IF findByEmail(store, data.email) # "none"
    THEN [error |-> ConflictError("User with this email already exists"), store |-> store,
          accessToken |-> NoToken]
    ELSE LET row == UserRow(store[data.email].gen,
                            IF data.role = "none" THEN "USER" ELSE data.role, TRUE,
                            bcryptHash(data.password)) IN
         [error |-> NoErr, store |-> [store EXCEPT ![data.email] = row],
          accessToken |-> generateLoginResponse(data.email, row, t)]

\* AuthService.register: the error thrown, or the store after the create and the
\* token.  data is the request body; its email and password (and name) are read.
registerService(store, data, t) ==
    IF findByEmail(store, data.email) # "none"
    THEN [error |-> ConflictError("User with this email already exists"), store |-> store,
          accessToken |-> NoToken]
    ELSE LET row == UserRow(store[data.email].gen, "USER", TRUE, bcryptHash(data.password)) IN
         [error |-> NoErr, store |-> [store EXCEPT ![data.email] = row],
          accessToken |-> generateLoginResponse(data.email, row, t)]

\* AuthService.login: the error thrown, or the token of the login response
loginService(store, email, password, t) ==
    LET e == findByEmail(store, email) IN
    IF e = "none"
    THEN [error |-> UnauthorizedError("Invalid credentials"), accessToken |-> NoToken]
    ELSE IF ~store[e].isActive
    THEN [error |-> UnauthorizedError("Account is inactive"), accessToken |-> NoToken]
    ELSE IF ~bcryptCompare(password, store[e].password)
    THEN [error |-> UnauthorizedError("Invalid credentials"), accessToken |-> NoToken]
    ELSE [error |-> NoErr, accessToken |-> generateLoginResponse(e, store[e], t)]

\* auth.controller.ts register
Register ==
    /\ Current(req) = "register"
    /\ LET r == registerService(users, req.body, now) IN
       /\ users' = r.store
       /\ held' = IF r.error = NoErr THEN r.accessToken ELSE held
       /\ req' = IF r.error # NoErr THEN NextError(req, "register", r.error)
                 ELSE [Respond(req, "register", 201, "User registered successfully")
                          EXCEPT !.accessToken = r.accessToken]
    /\ UNCHANGED <<resources, now, hits, gate, slots, win, fn, proc>>

\* auth.controller.ts login
Login ==
    /\ Current(req) = "login"
    /\ LET l == loginService(users, req.body.email, req.body.password, now)
           found == RowState(users, findByEmail(users, req.body.email)) IN
       /\ held' = IF l.error = NoErr THEN l.accessToken ELSE held
       /\ req' = IF l.error # NoErr
                 THEN [NextError(req, "login", l.error) EXCEPT !.found = found]
                 ELSE [Respond(req, "login", 200, "Login successful")
                          EXCEPT !.accessToken = l.accessToken, !.found = found]
    /\ UNCHANGED <<users, resources, now, hits, gate, slots, win, fn, proc>>

\* the position of a handler in the chain of a route
PcOf(route, name) == CHOOSE i \in 1..Len(Chain(route)) : Chain(route)[i] = name

\* the tokens a client presents: none, the one it received last, that one tampered with
ClientTokens == {NoToken, held, [held EXCEPT !.sig = "bad"]}

\* A request reaches the auth router: a register or login that passed the limiters
\* and its validation, or a request to a protected auth route.
NewAuthRequest ==
    /\ req.state = "idle"
    /\ \/ \E route \in AuthPublicRoutes, email \in Emails, password \in Passwords :
          \E role \in IF route = "POST /api/auth/login" THEN {"none"} ELSE {"none", "ADMIN"} :
             req' = [NoReq EXCEPT !.state = "running", !.route = route,
                        !.body = [NoBody EXCEPT !.email = email, !.password = password,
                                                !.role = role],
                        !.pc = PcOf(route, IF route = "POST /api/auth/login"
                                           THEN "login" ELSE "register")]
       \/ \E route \in AuthProtectedRoutes, token \in ClientTokens :
             \E body \in BodiesFor(route) :
                req' = [NoReq EXCEPT !.state = "running", !.route = route, !.token = token,
                                     !.body = body, !.pc = PcOf(route, "authenticate")]
    /\ UNCHANGED <<users, resources, now, hits, gate, held, slots, win, fn, proc>>

\* the principals whose rows are changed from outside the pipeline
Managed == {"user", "other"}

\* the Principal Store is changed from outside the pipeline: an account is deactivated
Deactivate ==
    /\ \E e \in Managed :
          /\ users[e].exists /\ users[e].isActive
          /\ users' = [users EXCEPT ![e].isActive = FALSE]
    /\ UNCHANGED <<resources, now, req, hits, gate, held, slots, win, fn, proc>>

\* ... or a principal is deleted
DeletePrincipal ==
    /\ \E e \in Managed :
          /\ users[e].exists /\ users[e].gen < MaxDeletes
          /\ users' = [users EXCEPT ![e] = [NoUserRow EXCEPT !.gen = users[e].gen + 1]]
    /\ UNCHANGED <<resources, now, req, hits, gate, held, slots, win, fn, proc>>

Tick ==
    /\ now < MaxTime
    /\ now' = now + 1
    /\ UNCHANGED <<users, resources, req, hits, gate, held, slots, win, fn, proc>>

InitAuth ==
    /\ fn = NoFn
    /\ proc = NoProc
    /\ \E o \in OtherRows : users = [SeedUsers EXCEPT !["other"] = o]
    /\ resources = SeedResources
    /\ now = 0
    /\ req = NoReq
    /\ hits = EmptyBuckets
    /\ gate = NoGate
    /\ held = NoToken
    /\ slots = NoSlots
    /\ win = NoWin

NextAuth ==
    \/ NewAuthRequest
    \/ Register
    \/ Login
    \/ Authenticate
    \/ GetCurrentUser
    \/ ChangePassword
    \/ ResponseSent
    \/ Deactivate
    \/ DeletePrincipal
    \/ Tick

SpecAuth == InitAuth /\ [][NextAuth]_vars


-----------------------------------------------------------------------------
(* SpecLimiter: one rate limiter under concurrently executing requests *)

MaxOverflow == 2
MaxOther == 1

SlotIds == {"s1", "s2"}

\* a new request takes the first free slot
SlotBefore(a, b) == a = "s1" /\ b = "s2"

\* A request at the limiter.  totalHits is what store.increment returned to it.
\* The other fields record the window at the moment it was counted: its place
\* among the arrivals of its address (nth), whether a request of its address had
\* been denied before it (afterDenial), and how often the count of its address had
\* been decremented before it (decrementsBefore).  stale: the window it was
\* counted in has been reset since.
IdleSlot == [pc |-> "idle", ip |-> "ip1", totalHits |-> 0, stale |-> FALSE, nth |-> 0,
             afterDenial |-> FALSE, decrementsBefore |-> 0]

\* The window of the limiter picked in Init: per address the requests counted in
\* it, the decrements of its count, whether one of them was denied and how many
\* of them were passed on to the route's handler.
FreshWindow(policy) ==
    [policy |-> policy,
     arrivals |-> [ip \in Ips |-> 0],
     decrements |-> [ip \in Ips |-> 0],
     denied |-> [ip \in Ips |-> FALSE],
     passed |-> [ip \in Ips |-> 0]]

\* requests of ip1 may exceed the ceiling by MaxOverflow in a window; the other
\* address sends up to MaxOther
ArrivalCap(policy, ip) == IF ip = "ip1" THEN policy.max + MaxOverflow ELSE MaxOther

\* the middleware up to `await store.increment(key)`: the request is counted
Arrive ==
    /\ \E s \in SlotIds, ip \in Ips :
          /\ slots[s].pc = "idle"
          /\ \A other \in SlotIds : slots[other].pc = "idle" => ~ SlotBefore(other, s)
          /\ win.arrivals[ip] < ArrivalCap(win.policy, ip)
          /\ LET totalHits == increment(hits[win.policy.name][ip]) IN
             /\ hits' = [hits EXCEPT ![win.policy.name][ip] = totalHits]
             /\ win' = [win EXCEPT !.arrivals[ip] = @ + 1]
             /\ slots' = [slots EXCEPT ![s] =
                             [pc |-> "counted", ip |-> ip, totalHits |-> totalHits,
                              stale |-> FALSE, nth |-> win.arrivals[ip] + 1,
                              afterDenial |-> win.denied[ip],
                              decrementsBefore |-> win.decrements[ip]]]
    /\ UNCHANGED <<users, resources, now, req, gate, held, fn, proc>>

\* the middleware after the await: over the limit the limiter's handler answers
\* 429, otherwise next() passes the request on to the route's handler
Decide ==
    /\ \E s \in SlotIds :
          /\ slots[s].pc = "counted"
          /\ IF overLimit(win.policy, slots[s].totalHits)
             THEN /\ slots' = [slots EXCEPT ![s].pc = "denied"]
                  /\ win' = IF ~ slots[s].stale
                            THEN [win EXCEPT !.denied[slots[s].ip] = TRUE]
                            ELSE win
             ELSE /\ slots' = [slots EXCEPT ![s].pc = "handler"]
                  /\ win' = IF ~ slots[s].stale
                            THEN [win EXCEPT !.passed[slots[s].ip] = @ + 1]
                            ELSE win
    /\ UNCHANGED <<users, resources, now, req, hits, gate, held, fn, proc>>

\* the response has finished: with skipSuccessfulRequests a response below 400
\* takes the request out of the count again
Finish ==
    /\ \E s \in SlotIds :
          /\ slots[s].pc \in {"handler", "denied"}
          /\ \E statusCode \in (IF slots[s].pc = "denied" THEN {429} ELSE {200, 401}) :
                LET ip == slots[s].ip
                    count == hits[win.policy.name][ip]
                    skip == win.policy.skipSuccessfulRequests /\ requestWasSuccessful(statusCode)
                IN
                /\ hits' = IF skip THEN [hits EXCEPT ![win.policy.name][ip] = decrement(count)]
                           ELSE hits
                /\ win' = IF skip /\ count > 0 THEN [win EXCEPT !.decrements[ip] = @ + 1]
                          ELSE win
          /\ slots' = [slots EXCEPT ![s] = IdleSlot]
    /\ UNCHANGED <<users, resources, now, req, gate, held, fn, proc>>

\* windowMs has elapsed: the store's timer clears every bucket
WindowResetKeepsCounts ==
    /\ win' = FreshWindow(win.policy)
    /\ slots' = [s \in SlotIds |-> IF slots[s].pc = "idle" THEN slots[s]
                                   ELSE [slots[s] EXCEPT !.stale = TRUE]]
    /\ UNCHANGED <<users, resources, now, req, hits, gate, held, fn, proc>>
WindowReset ==
    /\ hits' = [hits EXCEPT ![win.policy.name] = [ip \in Ips |-> 0]]
    /\ win' = FreshWindow(win.policy)
    /\ slots' = [s \in SlotIds |-> IF slots[s].pc = "idle" THEN slots[s]
                                   ELSE [slots[s] EXCEPT !.stale = TRUE]]
    /\ UNCHANGED <<users, resources, now, req, gate, held, fn, proc>>

InitLimiter ==
    /\ fn = NoFn
    /\ proc = NoProc
    /\ users = SeedUsers
    /\ resources = SeedResources
    /\ now = 0
    /\ req = NoReq
    /\ hits = EmptyBuckets
    /\ gate = NoGate
    /\ held = NoToken
    /\ slots = [s \in SlotIds |-> IdleSlot]
    /\ \E policy \in Limiters : win = FreshWindow(policy)

NextLimiter ==
    \/ Arrive
    \/ Decide
    \/ Finish
    \/ WindowReset

SpecLimiter == InitLimiter /\ [][NextLimiter]_vars

-----------------------------------------------------------------------------
(* SpecFn: functions applied on their own                                  *)

(* Parsed JSON.  A key is the sequence of its characters, so that the      *)
(* sanitizer's tests on keys are computed as the code computes them.  An   *)
(* object has its own properties (kv) and a prototype; JSON.parse only     *)
(* makes objects with the default prototype (NoProto).                     *)
NoProto == [t |-> "null"]
JScalar(s) == [t |-> "scalar", s |-> s]
JObject(kv) == [t |-> "object", kv |-> kv, proto |-> NoProto]
JArray(items) == [t |-> "array", items |-> items]

ProtoKey == <<"_", "_", "p", "r", "o", "t", "o", "_", "_">>

\* typeof v === 'object' for a value that is not null
IsObjectType(v) == v.t \in {"object", "array"}

\* Object.entries: own properties; of an array, its indices as keys
ObjectEntries(obj) ==
    LET IndexKey(i) == <<(<<"0", "1", "2">>)[i]>> IN
    IF obj.t = "array"
    THEN [k \in {IndexKey(i) : i \in 1..Len(obj.items)} |->
            obj.items[CHOOSE i \in 1..Len(obj.items) : IndexKey(i) = k]]
    ELSE obj.kv

\* key.startsWith('$') || key.includes('..')
DangerousKey(key) ==
    \/ Len(key) >= 1 /\ key[1] = "$"
    \/ \E i \in 1..(Len(key) - 1) : key[i] = "." /\ key[i + 1] = "."

\* sanitizeObject: copies the entries whose key is not dangerous into a new
\* object literal.  sanitized[key] = value defines an own property, except
\* for the key __proto__, where it sets the prototype of the new object
\* when the value is an object and does nothing otherwise.
RECURSIVE sanitizeObject(_)
sanitizeObject(obj) ==
    LET entries == ObjectEntries(obj)
        kept == {k \in DOMAIN entries : ~DangerousKey(k)}
        copy(value) ==
            IF value.t = "object" THEN sanitizeObject(value)
            ELSE IF value.t = "array"
            THEN JArray([i \in 1..Len(value.items) |->
                    IF IsObjectType(value.items[i])
                    THEN sanitizeObject(value.items[i])
                    ELSE value.items[i]])
            ELSE value
    IN  [t |-> "object",
         kv |-> [k \in kept \ {ProtoKey} |-> copy(entries[k])],
         proto |-> IF ProtoKey \in kept /\ IsObjectType(entries[ProtoKey])
                   THEN copy(entries[ProtoKey])
                   ELSE NoProto]

\* sanitizeBody: req.body is replaced when it is an object (or an array)
sanitizeBodyRewritesValues(body) ==
    IF IsObjectType(body)
    THEN LET o == sanitizeObject(body) IN
         [o EXCEPT !.kv = [k \in DOMAIN o.kv |->
                            IF o.kv[k].t = "scalar" THEN JScalar("") ELSE o.kv[k]]]
    ELSE body
sanitizeBody(body) == IF IsObjectType(body) THEN sanitizeObject(body) ELSE body

(* Request bodies as express.json() hands them over: up to three levels   *)
(* of nesting, objects of at most two properties, arrays of at most one    *)
(* item.  The keys: a plain one, one beginning with $, one containing ..   *)
(* and __proto__.                                                          *)
BodyKeys == {<<"n">>, <<"$", "w">>, <<"a", ".", ".", "b">>, ProtoKey}
Leaves == {JScalar("$ne")}
Nest(values) ==
    Leaves
    \cup {JObject(kv) : kv \in UNION {[ks -> values] :
            ks \in {x \in SUBSET BodyKeys : Cardinality(x) <= 2}}}
    \cup {JArray(<<>>)} \cup {JArray(<<v>>) : v \in values}
Bodies ==
    {JArray(<<v>>) : v \in Nest(Nest(Leaves))}
    \cup {JObject(kv) : kv \in UNION {
            {f \in [ks -> Nest(Nest(Leaves))] :
                Cardinality(ks) = 1 \/ \E k \in ks : f[k] \in Leaves} :
            ks \in {x \in SUBSET BodyKeys : Cardinality(x) <= 2}}}

SanitizeInputs ==
    {[kind |-> "sanitizeBody", arg |-> b, done |-> FALSE, out |-> "none"] : b \in Bodies}

ApplySanitizeBody ==
    /\ fn.kind = "sanitizeBody" /\ ~fn.done
    /\ fn' = [fn EXCEPT !.done = TRUE, !.out = sanitizeBody(fn.arg)]
    /\ UNCHANGED <<users, resources, now, req, hits, gate, held, slots, win, proc>>

(* validate(schema): schema.parseAsync({body, query, params}).  zod checks  *)
(* every field of the schema and reports every issue it finds; the         *)
(* middleware turns each into "path: message".  Of the schemas, the        *)
(* constraints on title, category and id are modelled.                     *)
zodIssues(name, data) ==
    LET title == <<"t", "i", "t", "l", "e">>
        category == <<"c", "a", "t", "e", "g", "o", "r", "y">>
        has(obj, key) == key \in DOMAIN obj.kv
        string(obj, key, path) ==
            IF has(obj, key) /\ obj.kv[key].t # "scalar"
            THEN {[path |-> path, message |-> "Expected string, received object"]}
            ELSE {}
        min3(obj, key, path) ==
            IF has(obj, key) /\ obj.kv[key].t = "scalar" /\ Len(obj.kv[key].s) < 3
            THEN {[path |-> path, message |-> "Title must be at least 3 characters"]}
            ELSE {}
        required(obj, key, path) ==
            IF has(obj, key) THEN {} ELSE {[path |-> path, message |-> "Required"]}
    IN  CASE name = "validate(createResourceSchema)" ->
                required(data.body, title, "body.title")
                \cup string(data.body, title, "body.title")
                \cup min3(data.body, title, "body.title")
                \cup string(data.body, category, "body.category")
          [] name = "validate(updateResourceSchema)" ->
                string(data.body, title, "body.title")
                \cup min3(data.body, title, "body.title")
                \cup string(data.body, category, "body.category")
          [] name = "validate(listResourcesSchema)" ->
                string(data.query, category, "query.category")
          [] name = "validate(resourceIdSchema)" ->
                IF data.params = "bad"
                THEN {[path |-> "params.id", message |-> "Invalid resource ID format"]}
                ELSE {}
          [] OTHER -> {}

\* the errors of the ValidationError: `${path}: ${message}` of each issue
validate(name, data) == {e.path \o ": " \o e.message : e \in zodIssues(name, data)}

\* The handlers of a route that touch the request data, in the order of the
\* chain, for a request that passes the limiters and the access gates: what
\* each validate inspected (seen) and the response of the first that rejects.
RECURSIVE runChain(_, _, _, _)
runChain(chain, i, data, seen) ==
    IF i > Len(chain) THEN [seen |-> seen, statusCode |-> 200, errors |-> {}]
    ELSE IF chain[i] = "sanitizeBody"
    THEN runChain(chain, i + 1, [data EXCEPT !.body = sanitizeBody(@)], seen)
    ELSE IF chain[i] \in BodySchemas \cup {"validate(resourceIdSchema)"}
    THEN IF validate(chain[i], data) # {}
         THEN [seen |-> Append(seen, data), statusCode |-> 422,
               errors |-> validate(chain[i], data)]
         ELSE runChain(chain, i + 1, data, Append(seen, data))
    ELSE runChain(chain, i + 1, data, seen)

\* requests to the validated resource routes: body and query of at most
\* three and two properties
ValidateInputs ==
    LET values == {JScalar("ab"), JScalar("abc"), JObject([k \in {<<"$", "w">>} |-> JScalar("$ne")])}
        objects(keys) == {JObject(kv) : kv \in UNION {[ks -> values] : ks \in SUBSET keys}}
    IN  {[kind |-> "validate",
          arg |-> [route |-> route,
                   data |-> [body |-> body, query |-> query, params |-> id]],
          done |-> FALSE, out |-> "none"] :
            route \in ResourceRoutes \ {"GET /api/resources/stats"},
            body \in objects({<<"t", "i", "t", "l", "e">>,
                              <<"c", "a", "t", "e", "g", "o", "r", "y">>, <<"$", "w">>}),
            query \in objects({<<"c", "a", "t", "e", "g", "o", "r", "y">>, <<"$", "w">>}),
            id \in {"r1", "bad"}}

ApplyValidate ==
    /\ fn.kind = "validate" /\ ~fn.done
    /\ fn' = [fn EXCEPT !.done = TRUE,
                        !.out = runChain(Chain(fn.arg.route), 1, fn.arg.data, <<>>)]
    /\ UNCHANGED <<users, resources, now, req, hits, gate, held, slots, win, proc>>

(* The token service under its configuration.  A time span is the        *)
(* sequence of its characters; an environment variable that is unset or   *)
(* empty is the empty string (both are falsy under ||).                   *)
DefaultSecret == "development-secret-key-change-in-production"

\* parseInt(value, 10) of a string of digits
RECURSIVE parseInt(_)
parseInt(value) ==
    IF value = <<>> THEN 0
    ELSE parseInt(SubSeq(value, 1, Len(value) - 1)) * 10
         + (CHOOSE n \in 0..9 :
                (<<"0", "1", "2", "3", "4", "5", "6", "7", "8", "9">>)[n + 1] = value[Len(value)])

IsDigits(value) ==
    /\ value # <<>>
    /\ \A i \in 1..Len(value) : value[i] \in {"0", "1", "2", "3", "4", "5", "6", "7", "8", "9"}

\* AuthService.parseExpirationTime: /^(\d+)([smhd])$/, else 86400
parseExpirationTime(expiration) ==
    LET n == Len(expiration) IN
    IF n >= 2 /\ IsDigits(SubSeq(expiration, 1, n - 1)) /\ expiration[n] \in {"s", "m", "h", "d"}
    THEN LET num == parseInt(SubSeq(expiration, 1, n - 1)) IN
         CASE expiration[n] = "s" -> num
           [] expiration[n] = "m" -> num * 60
           [] expiration[n] = "h" -> num * 3600
           [] expiration[n] = "d" -> num * 86400
    ELSE 86400

\* jwt.sign's expiresIn: the string goes through ms(), which reads digits
\* and an optional unit (s, m, h, d, w, in either case; none: milliseconds)
\* and gives milliseconds, or nothing (-1 here) for any other string; exp is
\* Math.floor(iat + ms / 1000), and without an exp jwt.sign throws.
timespan(time, iat) ==
    LET n == Len(time)
        units == [s |-> 1000, m |-> 60000, h |-> 3600000, d |-> 86400000, w |-> 604800000,
                  S |-> 1000, M |-> 60000, H |-> 3600000, D |-> 86400000, W |-> 604800000]
        ms == IF IsDigits(time) THEN parseInt(time)
              ELSE IF n >= 2 /\ IsDigits(SubSeq(time, 1, n - 1)) /\ time[n] \in DOMAIN units
              THEN parseInt(SubSeq(time, 1, n - 1)) * units[time[n]]
              ELSE -1
    IN  IF ms < 0 THEN -1 ELSE iat + (ms \div 1000)

\* new AuthService(): secret and time span from the environment, with the
\* development defaults; in production the default secret is only logged
AuthServiceConfig(env) ==
    [jwtSecret |-> IF env.JWT_SECRET # "" THEN env.JWT_SECRET ELSE DefaultSecret,
     jwtExpiresIn |-> IF env.JWT_EXPIRES_IN # <<>> THEN env.JWT_EXPIRES_IN ELSE <<"2", "4", "h">>]

\* generateLoginResponse at time iat: the token's secret, iat and exp, and
\* the expiresIn of the response; issued is FALSE when jwt.sign throws
issueToken(env, iat) ==
    LET config == AuthServiceConfig(env)
        exp == timespan(config.jwtExpiresIn, iat) IN
    [issued |-> exp >= 0, secret |-> config.jwtSecret, iat |-> iat, exp |-> exp,
     expiresIn |-> parseExpirationTime(config.jwtExpiresIn)]

Environments ==
    {[kind |-> "issueToken",
      arg |-> [NODE_ENV |-> mode, JWT_SECRET |-> secret, JWT_EXPIRES_IN |-> span, iat |-> iat],
      done |-> FALSE, out |-> "none"] :
        mode \in {"production", "development", ""},
        secret \in {"", DefaultSecret, "s3cret"},
        span \in {<<>>, <<"2", "s">>, <<"1", "5", "m">>, <<"2", "4", "h">>, <<"7", "d">>,
                  <<"1", "w">>, <<"3", "6", "0", "0">>, <<"1", "H">>, <<"h">>, <<"1", "x">>},
        iat \in {0, 1000}}

ApplyIssueToken ==
    /\ fn.kind = "issueToken" /\ ~fn.done
    /\ fn' = [fn EXCEPT !.done = TRUE, !.out = issueToken(fn.arg, fn.arg.iat)]
    /\ UNCHANGED <<users, resources, now, req, hits, gate, held, slots, win, proc>>

(* The global error handler on its own.  An error has the class the      *)
(* handler tests with instanceof, its own message and stack, and, for a   *)
(* persistence error, the code and the meta.target of the constraint.     *)
Thrown ==
    {[class |-> "AppError", statusCode |-> e.statusCode, message |-> e.message,
      errors |-> errors, stack |-> "AppError: at validate", code |-> "", target |-> <<>>] :
        e \in {UnauthorizedError("Invalid token"), ValidationError("Validation failed")},
        errors \in {{}, {"body.title: Required"}}}
    \cup {[class |-> "PrismaClientKnownRequestError", statusCode |-> 0,
           message |-> "Unique constraint failed on the fields: (email)", errors |-> {},
           stack |-> "PrismaClientKnownRequestError: at create", code |-> code,
           target |-> target] :
            code \in {"P2002", "P2025", "P2003", "P2014", "P2021"},
            target \in {<<>>, <<"email">>, <<"ownerId", "title">>}}
    \cup {[class |-> class, statusCode |-> 0, message |-> "connect ECONNREFUSED 10.0.0.5:5432",
           errors |-> {}, stack |-> "Error: at connect", code |-> "", target |-> <<>>] :
            class \in {"PrismaClientValidationError", "Error"}}

\* handlePrismaError: status and message for the code of a known request error
handlePrismaErrorUnmapped(error) == [statusCode |-> 500, message |-> "Database error occurred"]
handlePrismaError(error) ==
    LET join(target) == IF Len(target) = 1 THEN target[1] ELSE target[1] \o ", " \o target[2] IN
    CASE error.code = "P2002" ->
            [statusCode |-> 409,
             message |-> "Duplicate value for " \o
                            (IF error.target # <<>> THEN join(error.target) ELSE "field")]
      [] error.code = "P2025" -> [statusCode |-> 404, message |-> "Resource not found"]
      [] error.code = "P2003" ->
            [statusCode |-> 400, message |-> "Invalid reference to related resource"]
      [] error.code = "P2014" ->
            [statusCode |-> 400, message |-> "Operation would violate data integrity"]
      [] OTHER -> [statusCode |-> 500, message |-> "Database error occurred"]

\* errorHandler, every branch: the status and the JSON body of the response
\* (errors {} and stack "" stand for a body without that field)
ErrorResponseLeaksUnlessProduction(error, nodeEnv) ==
    IF error.class = "Error" /\ nodeEnv # "production"
    THEN [statusCode |-> 500, message |-> error.message, errors |-> {}, stack |-> error.stack]
    ELSE [statusCode |-> 500, message |-> "Internal server error", errors |-> {}, stack |-> ""]
ErrorResponse(error, nodeEnv) ==
    CASE error.class = "AppError" ->
            [statusCode |-> errorHandler(error).statusCode,
             message |-> errorHandler(error).message,
             errors |-> error.errors,
             stack |-> IF nodeEnv = "development" THEN error.stack ELSE ""]
      [] error.class = "PrismaClientKnownRequestError" ->
            [statusCode |-> handlePrismaError(error).statusCode,
             message |-> handlePrismaError(error).message, errors |-> {}, stack |-> ""]
      [] error.class = "PrismaClientValidationError" ->
            [statusCode |-> 400, message |-> "Invalid data provided", errors |-> {}, stack |-> ""]
      [] OTHER ->
            [statusCode |-> 500,
             message |-> IF nodeEnv = "development" THEN error.message
                         ELSE "Internal server error",
             errors |-> {},
             stack |-> IF nodeEnv = "development" THEN error.stack ELSE ""]

ErrorInputs ==
    {[kind |-> "errorHandler", arg |-> [error |-> error, NODE_ENV |-> mode],
      done |-> FALSE, out |-> "none"] :
        error \in Thrown, mode \in {"development", "production", "test", ""}}

ApplyErrorHandler ==
    /\ fn.kind = "errorHandler" /\ ~fn.done
    /\ fn' = [fn EXCEPT !.done = TRUE, !.out = ErrorResponse(fn.arg.error, fn.arg.NODE_ENV)]
    /\ UNCHANGED <<users, resources, now, req, hits, gate, held, slots, win, proc>>

(* The list operation on its own.  A stored resource has an owner, a     *)
(* category and a one-word title; a filter that is not supplied is ""     *)
(* (NoId for the owner), which is falsy in buildWhereClause.  All rows    *)
(* fit in one page.                                                       *)

\* ResourceRepository.findMany with buildWhereClause: the conditions of the
\* where clause hold together; search is the OR over the text columns
findMany(store, filters) ==
    {id \in DOMAIN store :
        /\ filters.category # "" => store[id].category = filters.category
        /\ filters.ownerId # NoId => store[id].ownerId = filters.ownerId
        /\ filters.search # "" => \/ store[id].title = filters.search
                                  \/ store[id].description = filters.search}

\* ResourceService.list: a principal who is not ADMIN is given its own id
\* as owner filter, over whatever the filters held
listUnscoped(store, filters, userId, userRole) == findMany(store, filters)
list(store, filters, userId, userRole) ==
    findMany(store, IF userRole # "ADMIN" THEN [filters EXCEPT !.ownerId = userId] ELSE filters)

\* listResources: the filters are the named fields of req.query; an ownerId
\* in the query is not among them
listResources(store, query, user) ==
    list(store, [category |-> query.category, search |-> query.search, ownerId |-> NoId],
         user.id, user.role)

ListInputs ==
    LET owners == {IdOf("user", 0), IdOf("other", 0), IdOf("admin", 0)}
        rows == {[ownerId |-> o, category |-> c, title |-> "t0", description |-> d] :
                    o \in owners, c \in {"c1", "c2"}, d \in {"t0", "d0"}}
    IN  {[kind |-> "listResources",
          arg |-> [store |-> store, query |-> query, user |-> user],
          done |-> FALSE, out |-> "none"] :
            store \in [{"r1", "r2"} -> rows],
            query \in [category : {"", "c1"}, search : {"", "d0"},
                       ownerId : {NoId, IdOf("other", 0)}],
            user \in {[id |-> IdOf("user", 0), role |-> "USER"],
                      [id |-> IdOf("other", 0), role |-> "USER"],
                      [id |-> IdOf("admin", 0), role |-> "ADMIN"]}}

ApplyListResources ==
    /\ fn.kind = "listResources" /\ ~fn.done
    /\ fn' = [fn EXCEPT !.done = TRUE,
                        !.out = listResources(fn.arg.store, fn.arg.query, fn.arg.user)]
    /\ UNCHANGED <<users, resources, now, req, hits, gate, held, slots, win, proc>>

(* The update of a resource on its own: PUT /api/resources/:id with a     *)
(* valid id, from sanitizeBody to the row the repository writes.  A       *)
(* number is [t |-> "number"]; the other scalars are strings.             *)

\* sanitizeInput: xss() with an empty white list removes the tags and keeps
\* the text; a string without tags is unchanged
sanitizeInput(input) == IF input = "<b>hi</b>" THEN "hi" ELSE input

\* sanitizeObject of utils/helpers: strings, strings in arrays and nested
\* objects are sanitized; any other array item is copied as it is
RECURSIVE helpersSanitizeObject(_)
helpersSanitizeObject(obj) ==
    JObject([key \in DOMAIN obj.kv |->
        LET value == obj.kv[key] IN
        CASE value.t = "scalar" -> JScalar(sanitizeInput(value.s))
          [] value.t = "array" ->
                JArray([i \in 1..Len(value.items) |->
                    IF value.items[i].t = "scalar"
                    THEN JScalar(sanitizeInput(value.items[i].s))
                    ELSE value.items[i]])
          [] value.t = "object" -> helpersSanitizeObject(value)
          [] OTHER -> value])

\* resourceRepository.update: prisma.resource.update({where: {id}, data})
\* writes every column that data names, the scalar columns id and ownerId
\* included, and rejects data with a key that is no column
repositoryUpdate(resource, data) ==
    LET columns == [title |-> <<"t", "i", "t", "l", "e">>,
                    metadata |-> <<"m", "e", "t", "a", "d", "a", "t", "a">>,
                    ownerId |-> <<"o", "w", "n", "e", "r", "I", "d">>]
        written(column) == columns[column] \in DOMAIN data.kv
        value(column) == data.kv[columns[column]] IN
    IF \E key \in DOMAIN data.kv : \A column \in DOMAIN columns : columns[column] # key
    THEN [error |-> AppError(400, "Invalid data provided"), resource |-> resource]
    ELSE [error |-> NoErr,
          resource |-> [id |-> resource.id,
                        ownerId |-> IF written("ownerId") THEN value("ownerId").s
                                    ELSE resource.ownerId,
                        title |-> IF written("title") THEN value("title") ELSE resource.title,
                        metadata |-> IF written("metadata") THEN value("metadata")
                                     ELSE resource.metadata]]

\* ResourceService.update: the access check, then the sanitized body, as
\* the request carried it, goes to the repository
update(resource, data, userId, userRole) ==
    IF userRole # "ADMIN" /\ resource.ownerId # userId
    THEN [error |-> ForbiddenError("You do not have permission to update this resource"),
          resource |-> resource]
    ELSE repositoryUpdate(resource, helpersSanitizeObject(data))

\* the chain of the route from sanitizeBody on: validate passes req.body on
\* as it found it
updateResource(resource, body, user) ==
    LET data == sanitizeBody(body) IN
    IF validate("validate(updateResourceSchema)", [body |-> data, query |-> JObject(<<>>),
                                                    params |-> resource.id]) # {}
    THEN [error |-> ValidationError("Validation failed"), resource |-> resource]
    ELSE update(resource, data, user.id, user.role)

UpdateInputs ==
    LET tagged == JScalar("<b>hi</b>")
        note == <<"n">>
        metadatas == {JObject([k \in {note} |-> v]) :
                        v \in {tagged, [t |-> "number", n |-> 7], JArray(<<tagged>>),
                               JObject([k \in {note} |-> tagged]),
                               JArray(<<JObject([k \in {note} |-> tagged])>>),
                               JArray(<<JArray(<<tagged>>)>>)}}
        values == [x \in {<<"t", "i", "t", "l", "e">>} |-> {tagged, JScalar("ab"), JScalar("abc")}]
               @@ [x \in {<<"m", "e", "t", "a", "d", "a", "t", "a">>} |-> metadatas]
               @@ [x \in {<<"o", "w", "n", "e", "r", "I", "d">>} |-> {JScalar("other")}]
               @@ [x \in {<<"x">>, <<"$", "w">>} |-> {JScalar("abc")}]
    IN  {[kind |-> "updateResource",
          arg |-> [resource |-> [id |-> "r1", ownerId |-> "user", title |-> JScalar("t0"),
                                 metadata |-> JObject(<<>>)],
                   body |-> JObject(kv), user |-> user],
          done |-> FALSE, out |-> "none"] :
            kv \in UNION {{f \in [ks -> UNION {values[k] : k \in ks}] :
                            \A k \in ks : f[k] \in values[k]} : ks \in SUBSET DOMAIN values},
            user \in {[id |-> "user", role |-> "USER"], [id |-> "other", role |-> "USER"],
                      [id |-> "admin", role |-> "ADMIN"]}}

ApplyUpdateResource ==
    /\ fn.kind = "updateResource" /\ ~fn.done
    /\ fn' = [fn EXCEPT !.done = TRUE,
                        !.out = updateResource(fn.arg.resource, fn.arg.body, fn.arg.user)]
    /\ UNCHANGED <<users, resources, now, req, hits, gate, held, slots, win, proc>>

(* The three sums to n, applied to one number.                             *)

SumRange == 4

\* sum_to_n_a: the Gauss formula; n * (n + 1) is even, the division is exact
sum_to_n_a(n) == (n * (n + 1)) \div 2

\* sum_to_n_b: for (let i = 1; i <= n; i++) sum += i
sum_to_n_b(n) ==
    LET RECURSIVE loop(_, _)
        loop(i, sum) == IF i <= n THEN loop(i + 1, sum + i) ELSE sum
    IN  loop(1, 0)

\* sum_to_n_c: if (n <= 1) return n; return n + sum_to_n_c(n - 1)
RECURSIVE sum_to_n_c(_)
sum_to_n_c(n) == IF n <= 1 THEN n ELSE n + sum_to_n_c(n - 1)

SumInputs ==
    {[kind |-> "sum_to_n", arg |-> n, done |-> FALSE, out |-> "none"] :
        n \in (0 - SumRange)..SumRange}

ApplySumToN ==
    /\ fn.kind = "sum_to_n" /\ ~fn.done
    /\ fn' = [fn EXCEPT !.done = TRUE,
                        !.out = [a |-> sum_to_n_a(fn.arg), b |-> sum_to_n_b(fn.arg),
                                 c |-> sum_to_n_c(fn.arg)]]
    /\ UNCHANGED <<users, resources, now, req, hits, gate, held, slots, win, proc>>

InitFn ==
    /\ fn \in SanitizeInputs \cup ValidateInputs \cup Environments \cup ErrorInputs
             \cup ListInputs \cup UpdateInputs \cup SumInputs
    /\ proc = NoProc
    /\ users = SeedUsers
    /\ resources = SeedResources
    /\ now = 0
    /\ req = NoReq
    /\ hits = EmptyBuckets
    /\ gate = NoGate
    /\ held = NoToken
    /\ slots = NoSlots
    /\ win = NoWin

NextFn ==
    \/ ApplySanitizeBody
    \/ ApplyValidate
    \/ ApplyIssueToken
    \/ ApplyErrorHandler
    \/ ApplyListResources
    \/ ApplyUpdateResource
    \/ ApplySumToN

SpecFn == InitFn /\ [][NextFn]_vars

-----------------------------------------------------------------------------
(* SpecRegister: register calls that interleave                            *)

\* Three register calls, each for one of two emails, of which "user" is
\* registered already.  rows counts the principals of an email; the User
\* table has a unique index on email.  A call is between its findByEmail
\* and its create at pc "create".
RegisterCalls ==
    [kind : {"register"},
     rows : {[e \in {"user", "other"} |-> IF e = "user" THEN 1 ELSE 0]},
     call : [{"c1", "c2", "c3"} ->
                [pc : {"findByEmail"}, email : {"user", "other"}, res : {NoErr},
                 accessToken : {NoToken}]]]

\* AuthService.register up to the existence check
RegisterFindByEmail ==
    /\ proc.kind = "register"
    /\ \E c \in DOMAIN proc.call :
          /\ proc.call[c].pc = "findByEmail"
          /\ proc' = IF proc.rows[proc.call[c].email] > 0
                     THEN [proc EXCEPT !.call[c].pc = "done",
                              !.call[c].res = errorHandler(
                                    ConflictError("User with this email already exists"))]
                     ELSE [proc EXCEPT !.call[c].pc = "create"]
    /\ UNCHANGED <<users, resources, now, req, hits, gate, held, slots, win, fn>>

\* ... and from userRepository.create on: the unique index rejects a second
\* row with P2002, which the error handler answers through handlePrismaError
RegisterCreate ==
    /\ proc.kind = "register"
    /\ \E c \in DOMAIN proc.call :
          LET email == proc.call[c].email
              P2002 == [class |-> "PrismaClientKnownRequestError", statusCode |-> 0,
                        message |-> "Unique constraint failed on the fields: (email)",
                        errors |-> {}, stack |-> "", code |-> "P2002",
                        target |-> <<"email">>]
              response == ErrorResponse(P2002, "production") IN
          /\ proc.call[c].pc = "create"
          /\ proc' = IF proc.rows[email] > 0
                     THEN [proc EXCEPT !.call[c].pc = "done",
                              !.call[c].res = [statusCode |-> response.statusCode,
                                               message |-> response.message]]
                     ELSE [proc EXCEPT !.rows[email] = @ + 1,
                              !.call[c].pc = "done",
                              !.call[c].res = [statusCode |-> 201,
                                               message |-> "User registered successfully"],
                              !.call[c].accessToken =
                                    generateLoginResponse(email,
                                        UserRow(0, "USER", TRUE, bcryptHash("pw1")), now)]
    /\ UNCHANGED <<users, resources, now, req, hits, gate, held, slots, win, fn>>

InitRegister ==
    /\ proc \in RegisterCalls
    /\ fn = NoFn
    /\ users = SeedUsers
    /\ resources = SeedResources
    /\ now = 0
    /\ req = NoReq
    /\ hits = EmptyBuckets
    /\ gate = NoGate
    /\ held = NoToken
    /\ slots = NoSlots
    /\ win = NoWin

NextRegister ==
    \/ RegisterFindByEmail
    \/ RegisterCreate

SpecRegister == InitRegister /\ [][NextRegister]_vars

-----------------------------------------------------------------------------
(* SpecShutdown: the server process from its first signal to its exit      *)

ForceTimeout == 3
MaxSignals == 3
MaxConnections == 2

\* gracefulShutdown(signal): server.close(callback) stops the listener and
\* registers the callback for the close event; setTimeout arms one more
\* force timer.  A timer is the time it has left, ForceTimeout standing for
\* the 30 seconds.
gracefulShutdownNoForceTimer(p, signal) ==
    [p EXCEPT !.signals = Append(@, signal), !.listening = FALSE, !.callbacks = @ + 1]
gracefulShutdown(p, signal) ==
    [p EXCEPT !.signals = Append(@, signal), !.listening = FALSE, !.callbacks = @ + 1,
              !.timers = Append(@, ForceTimeout)]

\* the server listens with some connections open, the database connected
InitShutdown ==
    /\ \E n \in 0..MaxConnections :
          proc = [kind |-> "server", signals |-> <<>>, listening |-> TRUE, connections |-> n,
                  callbacks |-> 0, disconnecting |-> 0, database |-> "connected",
                  timers |-> <<>>, forced |-> FALSE, exit |-> "none"]
    /\ fn = NoFn
    /\ users = SeedUsers
    /\ resources = SeedResources
    /\ now = 0
    /\ req = NoReq
    /\ hits = EmptyBuckets
    /\ gate = NoGate
    /\ held = NoToken
    /\ slots = NoSlots
    /\ win = NoWin

\* process.on(...): SIGTERM, SIGINT, an uncaught exception or an unhandled
\* rejection arrives, the first time or again
Signal ==
    /\ proc.kind = "server" /\ proc.exit = "none"
    /\ Len(proc.signals) < MaxSignals
    /\ \E signal \in {"SIGTERM", "SIGINT", "uncaughtException", "unhandledRejection"} :
          proc' = gracefulShutdown(proc, signal)
    /\ UNCHANGED <<users, resources, now, req, hits, gate, held, slots, win, fn>>

\* a client ends its connection; nothing makes it do so
ConnectionEnds ==
    /\ proc.kind = "server" /\ proc.exit = "none"
    /\ proc.connections > 0
    /\ proc' = [proc EXCEPT !.connections = @ - 1]
    /\ UNCHANGED <<users, resources, now, req, hits, gate, held, slots, win, fn>>

\* the close event of a server that listens no more and has no connection
\* left: a registered callback runs up to its await disconnectDatabase()
CloseCallback ==
    /\ proc.kind = "server" /\ proc.exit = "none"
    /\ ~proc.listening /\ proc.connections = 0
    /\ proc.callbacks > 0
    /\ proc' = [proc EXCEPT !.callbacks = @ - 1, !.disconnecting = @ + 1]
    /\ UNCHANGED <<users, resources, now, req, hits, gate, held, slots, win, fn>>

\* prisma.$disconnect() settles: the callback goes on to process.exit(0), or
\* to process.exit(1) from its catch
DisconnectSettles ==
    /\ proc.kind = "server" /\ proc.exit = "none"
    /\ proc.disconnecting > 0
    /\ \E resolved \in BOOLEAN :
          proc' = [proc EXCEPT !.disconnecting = @ - 1,
                      !.database = IF resolved THEN "disconnected" ELSE "failed",
                      !.exit = IF resolved THEN "0" ELSE "1"]
    /\ UNCHANGED <<users, resources, now, req, hits, gate, held, slots, win, fn>>

\* time passes while no armed timer is due
TimePasses ==
    /\ proc.kind = "server" /\ proc.exit = "none"
    /\ proc.timers # <<>>
    /\ \A i \in 1..Len(proc.timers) : proc.timers[i] > 0
    /\ proc' = [proc EXCEPT !.timers = [i \in 1..Len(@) |-> @[i] - 1]]
    /\ UNCHANGED <<users, resources, now, req, hits, gate, held, slots, win, fn>>

\* the setTimeout callback of a timer that is due: process.exit(1)
ForceShutdown ==
    /\ proc.kind = "server" /\ proc.exit = "none"
    /\ \E i \in 1..Len(proc.timers) : proc.timers[i] = 0
    /\ proc' = [proc EXCEPT !.forced = TRUE, !.exit = "1"]
    /\ UNCHANGED <<users, resources, now, req, hits, gate, held, slots, win, fn>>

NextShutdown ==
    \/ Signal
    \/ ConnectionEnds
    \/ CloseCallback
    \/ DisconnectSettles
    \/ TimePasses
    \/ ForceShutdown

\* The event loop runs a timer that is due, and time passes: the process is
\* kept alive by its armed timers.  Clients need not end their connections and
\* prisma.$disconnect() need not settle.
SpecShutdown ==
    InitShutdown /\ [][NextShutdown]_vars /\ WF_vars(TimePasses) /\ WF_vars(ForceShutdown)

-----------------------------------------------------------------------------
(* Properties *)

\* the handlers that ran for the request, the error handler left out
Handlers(r) == SelectSeq(r.trace, LAMBDA h : h # "errorHandler")
Ran(r) == {r.trace[i] : i \in 1..Len(r.trace)}
OwnedRouteControllers == {"getResource", "updateResource", "deleteResource"}

\* C1: a request whose principal is missing from the Principal Store or inactive
\* when authenticate looks it up is answered 401 with req.user unset and no
\* protected handler runs for it, whatever the token; a login for an inactive
\* principal returns no token.
C1_InactiveNeverAuthenticated ==
    /\ ("authenticate" \in Ran(req) /\ req.found \in {"missing", "inactive"}) =>
          /\ req.state = "done"
          /\ req.res.statusCode = 401
          /\ req.user = NoUser
          /\ Ran(req) \cap Controllers = {}
    /\ (Ran(req) \cap Controllers # {} \/ Current(req) \in Controllers) =>
          (req.found = "active" /\ req.user # NoUser)
    /\ ("login" \in Ran(req) /\ req.found # "active") =>
          (req.accessToken = NoToken /\ req.res.statusCode = 401)

\* a request with an unexpired, well-signed token of a principal deactivated since
\* the token was issued has been answered 401
C1_Witness ==
    /\ req.route \in AuthProtectedRoutes
    /\ req.state = "done"
    /\ req.token # NoToken
    /\ verifyToken(req.token, now) = NoErr
    /\ req.found = "inactive"
    /\ req.res.statusCode = 401

\* C2 (as amended): for getById, update and delete on an existing resource the
\* request is allowed when the requester owns the resource or is ADMIN and is
\* answered 403 for every other USER, leaving the resource unchanged; that check is
\* made by the service, while the gate requireOwnershipOrAdmin lets every
\* authenticated principal through and stops only a request without req.user (401).
C2_OwnershipDecidedByService ==
    /\ []((gate.kind = "requireOwnershipOrAdmin" /\ gate.done) =>
             IF gate.user = NoUser THEN gate.error.statusCode = 401 ELSE gate.error = NoErr)
    /\ [][(/\ Current(req) \in OwnedRouteControllers
           /\ req.id \in ResourceIds
           /\ resources[req.id].exists) =>
             IF req.user.role = "ADMIN" \/ resources[req.id].ownerId = req.user.id
             THEN req'.res.statusCode = 200
             ELSE req'.res.statusCode = 403 /\ resources' = resources]_vars

\* a USER who does not own the resource has been refused by the service
C2_Witness ==
    /\ req.state = "done"
    /\ Ran(req) \cap OwnedRouteControllers # {}
    /\ req.user.role = "USER"
    /\ req.id \in ResourceIds
    /\ resources[req.id].exists
    /\ resources[req.id].ownerId # req.user.id
    /\ req.res.statusCode = 403

\* C2 as stated: the gate requireOwnershipOrAdmin too denies with 403 every USER who
\* does not own the resource
C2_Original ==
    /\ (/\ gate.kind = "requireOwnershipOrAdmin"
        /\ gate.done
        /\ gate.user # NoUser
        /\ gate.user.role # "ADMIN"
        /\ gate.user.id # gate.ownerId) => gate.error.statusCode = 403
    /\ (/\ req.state = "done"
        /\ Ran(req) \cap OwnedRouteControllers # {}
        /\ req.user.role # "ADMIN"
        /\ req.id \in ResourceIds
        /\ resources[req.id].exists
        /\ resources[req.id].ownerId # req.user.id) => req.res.statusCode = 403

\* the handlers of the request's chain ran in the chain's order, none left out, and
\* a request still in the chain has had no handler fail
RanInChainOrder(r) ==
    LET ran == Handlers(r) IN
    /\ Len(ran) <= Len(Chain(r.route))
    /\ \A i \in 1..Len(ran) : ran[i] = Chain(r.route)[i]
    /\ r.state = "running" => (r.pc = Len(ran) + 1 /\ r.errors = 0)
    /\ r.errors <= 1

\* the request ended at a gate: the last handler that ran is no controller
StoppedByGate(r) ==
    /\ r.state = "done"
    /\ Handlers(r)[Len(Handlers(r))] \notin Controllers

StageAsSpecified(h) ==
    CASE h \in {"apiLimiter", "createResourceLimiter"} -> 1
      [] h = "sanitizeBody" -> 2
      [] h = "authenticate" -> 3
      [] h = "requireUserOrAdmin" -> 4
      [] h = "errorHandler" -> 7
      [] h \in Controllers -> 6
      [] OTHER -> 5

\* ... and in the order app.ts and the routers mount them
StageAsMounted(h) ==
    CASE h = "sanitizeBody" -> 1
      [] h = "apiLimiter" -> 2
      [] h = "authenticate" -> 3
      [] h = "requireUserOrAdmin" -> 4
      [] h = "createResourceLimiter" -> 5
      [] h = "errorHandler" -> 8
      [] h \in Controllers -> 7
      [] OTHER -> 6

AllowedBy(g) ==
    CASE g.kind = "requireRole" -> g.allowedRoles
      [] g.kind = "requireAdmin" -> {"ADMIN"}
      [] g.kind = "requireUserOrAdmin" -> {"USER", "ADMIN"}
      [] OTHER -> {}

\* C5: requireRole(allowedRoles) lets a request through iff req.user is set and its
\* role is in allowedRoles, failing with 401 without req.user and with 403 for a
\* role outside the set; so requireAdmin denies USER and GUEST, and on every
\* /api/resources route requireUserOrAdmin denies GUEST.
C5_RequireRole ==
    /\ (gate.kind \in {"requireRole", "requireAdmin", "requireUserOrAdmin"} /\ gate.done) =>
          /\ gate.error = NoErr <=> (gate.user # NoUser /\ gate.user.role \in AllowedBy(gate))
          /\ gate.user = NoUser => gate.error.statusCode = 401
          /\ (gate.user # NoUser /\ gate.user.role \notin AllowedBy(gate)) =>
                gate.error.statusCode = 403
    /\ (req.route \in ResourceRoutes /\ "requireUserOrAdmin" \in Ran(req)) =>
          IF req.user.role \in {"USER", "ADMIN"}
          THEN ~(StoppedByGate(req) /\ Handlers(req)[Len(Handlers(req))] = "requireUserOrAdmin")
          ELSE /\ req.state = "done"
               /\ req.res.statusCode = 403
               /\ Ran(req) \cap Controllers = {}

\* an authenticated GUEST has been refused on a resource route
C5_Witness ==
    /\ req.route \in ResourceRoutes
    /\ req.user.role = "GUEST"
    /\ "requireUserOrAdmin" \in Ran(req)
    /\ req.res.statusCode = 403

\* C6: a failed login answers a non-matching password the same way whether or not
\* a principal has the email: the response of a login with a non-matching password
\* is the response the same login gets from a store without that email.
C6_FailedLoginRevealsNothing ==
    [][(/\ Current(req) = "login"
        /\ LET e == findByEmail(users, req.body.email) IN
           e = "none" \/ ~bcryptCompare(req.body.password, users[e].password)) =>
          LET absent == [users EXCEPT ![req.body.email] = NoUserRow] IN
          req'.res = errorHandler(loginService(absent, req.body.email, req.body.password,
                                               now).error)]_vars

\* the limiter has decided about the request in slot s
Decided(s) == slots[s].pc \in {"handler", "denied"}

\* the ceilings as configured: 100, 5 and 50 requests per window
Ceiling(name) ==
    CASE name = "api" -> ApiMax
      [] name = "auth" -> AuthMax
      [] name = "create" -> CreateMax

C8_SixthDeniedUnlessSuccessesBefore ==
    win.policy.name = "auth" =>
       \A s \in SlotIds :
          Decided(s) =>
             /\ slots[s].pc = "denied" <=> slots[s].nth - slots[s].decrementsBefore > AuthMax
             /\ slots[s].nth = AuthMax + 1 =>
                   (slots[s].pc = "denied" <=> slots[s].decrementsBefore = 0)

\* the 6th attempt of an address, none before it successful, has been denied
C8_Witness ==
    /\ win.policy.name = "auth"
    /\ \E s \in SlotIds :
          /\ slots[s].pc = "denied"
          /\ slots[s].nth = AuthMax + 1
          /\ slots[s].decrementsBefore = 0

\* C8 as stated: the 6th attempt of an address in a window is always denied
C8_Original ==
    win.policy.name = "auth" =>
       \A s \in SlotIds :
          (Decided(s) /\ slots[s].nth = AuthMax + 1) => slots[s].pc = "denied"

\* C9 (as amended): for each limiter and address the first N requests counted in a
\* window are passed on and the count restarts with the window; every request
\* after the Nth is answered 429 under apiLimiter and createResourceLimiter, and
\* under authLimiter provided no request of the address was taken out of the count
\* before it in the window.
C9_CeilingPerWindow ==
    LET name == win.policy.name
        N == Ceiling(name) IN
    /\ \A ip \in Ips : hits[name][ip] <= win.arrivals[ip]
    /\ \A s \in SlotIds :
          Decided(s) =>
             /\ slots[s].nth <= N => slots[s].pc = "handler"
             /\ (slots[s].nth > N /\ (name # "auth" \/ slots[s].decrementsBefore = 0)) =>
                   slots[s].pc = "denied"

\* under createResourceLimiter the 51st request of a window was denied, the window
\* has been reset since, and the first request of the new window is passed on
C9_Witness ==
    /\ win.policy.name = "create"
    /\ \E s, t \in SlotIds :
          /\ slots[s].stale /\ slots[s].pc = "denied" /\ slots[s].nth = CreateMax + 1
          /\ ~ slots[t].stale /\ slots[t].pc = "handler" /\ slots[t].nth = 1
          /\ slots[s].ip = slots[t].ip

\* C9 as stated: under every limiter the first N are passed on and the (N+1)th is
\* denied
C9_Original ==
    LET N == Ceiling(win.policy.name) IN
    \A s \in SlotIds :
       Decided(s) =>
          /\ slots[s].nth <= N => slots[s].pc = "handler"
          /\ slots[s].nth = N + 1 => slots[s].pc = "denied"

\* C10: whatever the interleaving of the requests of a key, every increment
\* returns the count it stored, none is lost; under apiLimiter and
\* createResourceLimiter no two requests of a key obtain the same count in a window
\* and at most max requests of a key are passed on to the handler in one window.
C10_IncrementAndCompareAtomic ==
    LET name == win.policy.name IN
    /\ \A s \in SlotIds :
          slots[s].pc # "idle" => slots[s].totalHits = slots[s].nth - slots[s].decrementsBefore
    /\ name \in {"api", "create"} =>
          /\ \A s \in SlotIds : slots[s].pc # "idle" => slots[s].totalHits = slots[s].nth
          /\ \A s, t \in SlotIds :
                (/\ s # t
                 /\ slots[s].pc # "idle" /\ slots[t].pc # "idle"
                 /\ slots[s].ip = slots[t].ip
                 /\ ~ slots[s].stale /\ ~ slots[t].stale) =>
                   slots[s].totalHits # slots[t].totalHits
          /\ \A s \in SlotIds : slots[s].pc = "handler" => slots[s].totalHits <= Ceiling(name)
          /\ \A ip \in Ips : win.passed[ip] <= Ceiling(name)

\* under apiLimiter two requests of one address are in flight, counted one after
\* the other around the ceiling: the 100th is passed on, the 101st is not
C10_Witness ==
    /\ win.policy.name = "api"
    /\ \E s, t \in SlotIds :
          /\ slots[s].ip = slots[t].ip
          /\ ~ slots[s].stale /\ ~ slots[t].stale
          /\ slots[s].pc = "handler" /\ slots[s].totalHits = ApiMax
          /\ slots[t].pc = "denied" /\ slots[t].totalHits = ApiMax + 1
          /\ win.passed[slots[s].ip] = ApiMax


(* ---- C11 ---- *)

\* some key of the value, at any depth, is one the sanitizer removes
RECURSIVE HasDangerousKey(_)
HasDangerousKey(v) ==
    CASE v.t = "object" ->
            \/ \E k \in DOMAIN v.kv : DangerousKey(k) \/ HasDangerousKey(v.kv[k])
            \/ HasDangerousKey(v.proto)
      [] v.t = "array" -> \E i \in 1..Len(v.items) : HasDangerousKey(v.items[i])
      [] OTHER -> FALSE

\* every key of the input that the sanitizer does not remove is a key of the
\* output at the same place, at any depth (an array item is found under its
\* index), and a scalar is unchanged
RECURSIVE SiblingsKept(_, _)
SiblingsKept(in, out) ==
    IF IsObjectType(in)
    THEN /\ IsObjectType(out)
         /\ \A k \in DOMAIN ObjectEntries(in) :
                ~DangerousKey(k) =>
                    /\ k \in DOMAIN ObjectEntries(out)
                    /\ SiblingsKept(ObjectEntries(in)[k], ObjectEntries(out)[k])
    ELSE out = in

Sanitized == fn.kind = "sanitizeBody" /\ fn.done

\* C11: the sanitizer's output holds no key beginning with $ or containing
\* .. at any depth, array elements included, and every sibling of a removed
\* key is still present.  The code loses the sibling named __proto__.
C11_DangerousKeysRemovedSiblingsKept ==
    Sanitized => ~HasDangerousKey(fn.out) /\ SiblingsKept(fn.arg, fn.out)

\* the first half of C11 alone
C11_NoDangerousKeySurvives == Sanitized => ~HasDangerousKey(fn.out)

\* the second half of C11 for bodies without a __proto__ key at any depth
RECURSIVE HasProtoKey(_)
HasProtoKey(v) ==
    CASE v.t = "object" ->
            \E k \in DOMAIN v.kv : k = ProtoKey \/ HasProtoKey(v.kv[k])
      [] v.t = "array" -> \E i \in 1..Len(v.items) : HasProtoKey(v.items[i])
      [] OTHER -> FALSE

C11_SiblingsKeptWithoutProto ==
    Sanitized /\ ~HasProtoKey(fn.arg) => SiblingsKept(fn.arg, fn.out)

(* ---- C12 ---- *)

Validated == fn.kind = "validate" /\ fn.done

\* C12: whenever validate runs, the body, the query and the params it
\* inspects hold no key beginning with $ or containing .. at any depth.
\* The code sanitizes req.body only.
C12_ValidateSeesSanitizedData ==
    Validated =>
        \A i \in 1..Len(fn.out.seen) :
            /\ ~HasDangerousKey(fn.out.seen[i].body)
            /\ ~HasDangerousKey(fn.out.seen[i].query)

\* the part of C12 that holds: the body validate inspects is sanitized
C12_ValidateSeesSanitizedBody ==
    Validated =>
        /\ Len(fn.out.seen) >= 1
        /\ \A i \in 1..Len(fn.out.seen) : ~HasDangerousKey(fn.out.seen[i].body)

(* ---- C13 ---- *)

\* every constraint the request violates across the schemas of its route
AllViolations(route, data) ==
    UNION {validate(name, data) :
            name \in {Chain(route)[i] : i \in 1..Len(Chain(route))}}

\* C13: a 422 response lists every constraint the request violates across
\* the body, query and params schemas of its route.  On PUT /:id the two
\* validators run one after the other and the first rejection answers.
C13_AllViolationsInOneResponse ==
    Validated /\ fn.out.statusCode = 422 =>
        AllViolations(fn.arg.route,
                      [fn.arg.data EXCEPT !.body = sanitizeBody(@)]) \subseteq fn.out.errors

\* C13 on the routes with one validator
C13_SingleValidatorReportsAll ==
    Validated /\ fn.out.statusCode = 422 /\ fn.arg.route # "PUT /api/resources/:id" =>
        AllViolations(fn.arg.route,
                      [fn.arg.data EXCEPT !.body = sanitizeBody(@)]) \subseteq fn.out.errors

(* ---- C14 ---- *)

\* a login or a register answers with a token
Issues == req.state = "running" /\ Current(req) \in {"login", "register"}
                /\ req'.accessToken # NoToken

\* C14: the token a login or a register issues for a principal verifies, at
\* every time before its expiry, to a payload whose userId, email and role
\* are the principal's at issuance.
C14_VerifyReturnsIssuedPayload ==
    [][Issues =>
        LET token == req'.accessToken
            e == req.body.email IN
        /\ users'[e].exists
        /\ \A t \in now..(token.exp - 1) : verifyToken(token, t) = NoErr
        /\ token.exp > now
        /\ decoded(token) = [userId |-> IdOf(e, users'[e].gen), email |-> e,
                             role |-> users'[e].role]]_vars

\* a token issued to the administrator by a login has been presented and accepted
C14_Witness ==
    /\ held # NoToken /\ held.role = "ADMIN"
    /\ req.token = held /\ req.user # NoUser
    /\ verifyToken(req.token, now) = NoErr

(* ---- C15 ---- *)

\* authenticate hands a token to verifyToken
Verifies == req.state = "running" /\ Current(req) = "authenticate"
                /\ req.token # NoToken /\ req' # req

Issued == fn.kind = "issueToken" /\ fn.done

\* JWT_EXPIRES_IN is <integer><s|m|h|d>, or is left to the default
WellFormed(span) ==
    \/ span = <<>>
    \/ /\ Len(span) >= 2 /\ IsDigits(SubSeq(span, 1, Len(span) - 1))
       /\ span[Len(span)] \in {"s", "m", "h", "d"}

\* C16: the token expires exactly ttl seconds after it is issued, ttl being
\* the configured <integer><s|m|h|d> in seconds and 86400 for any other
\* value, and the expiresIn of the response is the token's exp - iat.  For
\* values such as 1w, 3600 or 1H the token's life is not what is answered.
C16_TokenLivesExpiresIn ==
    Issued =>
        /\ fn.out.issued
        /\ fn.out.exp - fn.out.iat = fn.out.expiresIn
        /\ ~WellFormed(fn.arg.JWT_EXPIRES_IN) => fn.out.expiresIn = 86400

\* C16 for the values of the form <integer><s|m|h|d>
C16_WellFormedSpansAgree ==
    Issued /\ WellFormed(fn.arg.JWT_EXPIRES_IN) =>
        /\ fn.out.issued
        /\ fn.out.exp - fn.out.iat = fn.out.expiresIn

(* ---- C17 ---- *)

\* C17: in production no token is issued with the development default
\* secret.  The constructor only logs a warning and goes on.
C17_NoDefaultSecretInProduction ==
    Issued /\ fn.arg.NODE_ENV = "production" /\ fn.out.issued =>
        fn.out.secret # DefaultSecret

\* outside production, and in production with a secret of its own, the
\* service signs with the configured secret
C17_ConfiguredSecretIsUsed ==
    Issued /\ fn.arg.JWT_SECRET # "" => fn.out.secret = fn.arg.JWT_SECRET

(* ---- C18 ---- *)

Rendered == fn.kind = "errorHandler" /\ fn.done

\* the status the code table gives a persistence error
StatusOfCode(code) ==
    CASE code = "P2002" -> 409
      [] code = "P2025" -> 404
      [] code \in {"P2003", "P2014"} -> 400
      [] OTHER -> 500

\* C18: for a known persistence error, status and message follow from the
\* code alone: the response is the one the same code gets without metadata.
\* For a unique violation the message names the columns of meta.target.
C18_PersistenceErrorByCodeAlone ==
    Rendered /\ fn.arg.error.class = "PrismaClientKnownRequestError" =>
        /\ fn.out.statusCode = StatusOfCode(fn.arg.error.code)
        /\ fn.out = ErrorResponse([fn.arg.error EXCEPT !.target = <<>>], fn.arg.NODE_ENV)

\* the status half of C18, and the message for every code but P2002
C18_StatusByCodeAlone ==
    Rendered /\ fn.arg.error.class = "PrismaClientKnownRequestError" =>
        /\ fn.out.statusCode = StatusOfCode(fn.arg.error.code)
        /\ fn.arg.error.code # "P2002" =>
              fn.out = ErrorResponse([fn.arg.error EXCEPT !.target = <<>>], fn.arg.NODE_ENV)

(* ---- C19 ---- *)

\* C19: outside development (NODE_ENV unset included) no error response
\* carries a stack, and a failure that is neither an AppError nor a
\* persistence error is answered 500 'Internal server error' whatever its
\* own message.
C19_NoDetailOutsideDevelopment ==
    Rendered /\ fn.arg.NODE_ENV # "development" =>
        /\ fn.out.stack = ""
        /\ fn.arg.error.class = "Error" =>
              /\ fn.out.statusCode = 500
              /\ fn.out.message = "Internal server error"
              /\ fn.out.errors = {}

\* an unexpected failure was rendered with NODE_ENV unset
C19_Witness ==
    /\ Rendered /\ fn.arg.NODE_ENV = "" /\ fn.arg.error.class = "Error"
    /\ fn.arg.error.message # "Internal server error"
    /\ fn.out.message = "Internal server error"

(* ---- C20 ---- *)

Listed == fn.kind = "listResources" /\ fn.done

\* C20: whatever filters the request supplies, every resource the list
\* returns to a principal who is not ADMIN is owned by that principal, and
\* the list of an ADMIN holds the matching resources of every owner.
C20_ListScopedToOwner ==
    Listed =>
        LET store == fn.arg.store
            user == fn.arg.user
            matches == {id \in DOMAIN store :
                /\ fn.arg.query.category # "" => store[id].category = fn.arg.query.category
                /\ fn.arg.query.search # "" =>
                      fn.arg.query.search \in {store[id].title, store[id].description}} IN
        /\ user.role # "ADMIN" => fn.out = {id \in matches : store[id].ownerId = user.id}
        /\ user.role = "ADMIN" => fn.out = matches

\* a principal who is not ADMIN asked for another owner's resources, one of
\* which matched the other filters, and was given its own only
C20_Witness ==
    /\ Listed /\ fn.arg.user.role # "ADMIN"
    /\ fn.arg.query.ownerId # NoId /\ fn.arg.query.ownerId # fn.arg.user.id
    /\ fn.arg.query.search # ""
    /\ fn.out # {} /\ fn.out # DOMAIN fn.arg.store
    /\ \E id \in DOMAIN fn.arg.store :
          /\ fn.arg.store[id].ownerId = fn.arg.query.ownerId
          /\ fn.arg.store[id].description = fn.arg.query.search

(* ---- C21 ---- *)

\* under every key of the output, at any depth, a scalar of the input is
\* the same scalar in the output
RECURSIVE ScalarsUntouched(_, _)
ScalarsUntouched(in, out) ==
    IF IsObjectType(in)
    THEN /\ IsObjectType(out)
         /\ \A k \in DOMAIN ObjectEntries(out) :
                /\ k \in DOMAIN ObjectEntries(in)
                /\ ScalarsUntouched(ObjectEntries(in)[k], ObjectEntries(out)[k])
    ELSE out = in

\* C21: the key sanitizer never inspects values: under every key it keeps,
\* a scalar value, such as the string $ne, is identical in input and output.
C21_ScalarValuesPreserved == Sanitized => ScalarsUntouched(fn.arg, fn.out)

\* a body lost a $ key and kept the value $ne under another key
C21_Witness ==
    /\ Sanitized /\ fn.arg.t = "object"
    /\ \E k \in DOMAIN fn.arg.kv : DangerousKey(k) /\ k \notin DOMAIN fn.out.kv
    /\ \E k \in DOMAIN fn.out.kv : fn.out.kv[k] = JScalar("$ne") /\ fn.arg.kv[k] = JScalar("$ne")


(* ---- C22 ---- *)

Updated == fn.kind = "updateResource" /\ fn.done /\ fn.out.error = NoErr

\* C22: an update that passes validation leaves the id and the owner of the
\* resource as they were, whatever extra keys its body carries.  The body
\* reaches the repository with its extra keys, ownerId among them.
C22_UpdateKeepsIdAndOwner ==
    Updated =>
        /\ fn.out.resource.id = fn.arg.resource.id
        /\ fn.out.resource.ownerId = fn.arg.resource.ownerId

\* C22 for the bodies that carry no ownerId
C22_UpdateWithoutOwnerIdKeepsOwner ==
    Updated /\ <<"o", "w", "n", "e", "r", "I", "d">> \notin DOMAIN fn.arg.body.kv =>
        /\ fn.out.resource.id = fn.arg.resource.id
        /\ fn.out.resource.ownerId = fn.arg.resource.ownerId

(* ---- C28 ---- *)

\* every string of the value, at any depth, is one sanitizeInput leaves as it is
RECURSIVE StringsSanitized(_)
StringsSanitized(v) ==
    CASE v.t = "scalar" -> sanitizeInput(v.s) = v.s
      [] v.t = "object" -> \A k \in DOMAIN v.kv : StringsSanitized(v.kv[k])
      [] v.t = "array" -> \A i \in 1..Len(v.items) : StringsSanitized(v.items[i])
      [] OTHER -> TRUE

\* some array of the value, at any depth, holds an object or an array
RECURSIVE HasContainerInArray(_)
HasContainerInArray(v) ==
    CASE v.t = "object" -> \E k \in DOMAIN v.kv : HasContainerInArray(v.kv[k])
      [] v.t = "array" -> \E i \in 1..Len(v.items) : IsObjectType(v.items[i])
      [] OTHER -> FALSE

\* C28: every string of an update's payload has gone through sanitizeInput
\* before it is stored, at every depth.  A string in an object that is an
\* array element is stored as it came.
C28_EveryStringSanitized ==
    Updated => StringsSanitized(fn.out.resource.title) /\ StringsSanitized(fn.out.resource.metadata)

\* C28 for payloads whose arrays hold scalars only
C28_StringsOutsideNestedArraysSanitized ==
    Updated /\ ~HasContainerInArray(fn.arg.body) =>
        StringsSanitized(fn.out.resource.title) /\ StringsSanitized(fn.out.resource.metadata)


(* ---- C23 ---- *)

\* C23: req.user is the stored principal, not the token's claims: its id and
\* role are those of the Principal Store when authenticate ran, and the
\* role gate decides on the stored role, so a token issued with a role the
\* principal no longer has is authorized by the new role.
C23_AuthorizedByStoredRole ==
    (req.route \in ResourceRoutes /\ "authenticate" \in Ran(req) /\ req.user # NoUser) =>
        /\ users[req.user.email].exists
        /\ req.user.id = IdOf(req.user.email, users[req.user.email].gen)
        /\ req.user.id = req.token.userId
        /\ req.user.role = users[req.user.email].role
        /\ "requireUserOrAdmin" \in Ran(req) =>
              IF users[req.user.email].role \in {"USER", "ADMIN"}
              THEN Ran(req) \cap Controllers # {} => req.user.role \in {"USER", "ADMIN"}
              ELSE /\ req.state = "done" /\ req.res.statusCode = 403
                   /\ Ran(req) \cap Controllers = {}

\* a token issued with role USER was presented after the principal's role
\* had become GUEST, and the request was denied by the role gate
C23_Witness ==
    /\ req.route \in ResourceRoutes /\ req.state = "done"
    /\ req.token.role = "USER" /\ verifyToken(req.token, now) = NoErr
    /\ req.user # NoUser /\ req.user.role = "GUEST"
    /\ users[req.user.email].role = "GUEST"
    /\ req.res.statusCode = 403


(* ---- C24 ---- *)

\* the calls for an email, and those that were answered with a status
CallsFor(email) == {c \in DOMAIN proc.call : proc.call[c].email = email}
Answered(email, statusCode) ==
    {c \in CallsFor(email) : proc.call[c].pc = "done" /\ proc.call[c].res.statusCode = statusCode}

\* C24: at most one principal exists per email; of the register calls for
\* an email, interleaved between check and create or not, one creates the
\* principal and returns a token (none when the email was registered
\* before) and every other is answered 409 and creates nothing.
C24_OnePrincipalPerEmail ==
    proc.kind = "register" =>
        \A email \in DOMAIN proc.rows :
            LET before == IF email = "user" THEN 1 ELSE 0 IN
            /\ proc.rows[email] <= 1
            /\ Cardinality(Answered(email, 201)) = proc.rows[email] - before
            /\ \A c \in CallsFor(email) :
                  /\ proc.call[c].pc = "done" => proc.call[c].res.statusCode \in {201, 409}
                  /\ proc.call[c].accessToken # NoToken <=> c \in Answered(email, 201)
                  /\ c \in Answered(email, 201) =>
                        /\ proc.call[c].accessToken.email = email
                        /\ verifyToken(proc.call[c].accessToken, now) = NoErr
            /\ (CallsFor(email) # {} /\ \A c \in CallsFor(email) : proc.call[c].pc = "done") =>
                  /\ proc.rows[email] = 1
                  /\ Cardinality(Answered(email, 409)) = Cardinality(CallsFor(email)) - (1 - before)

\* three calls for one new email all passed the existence check; one was
\* answered 201 and the two others 409 by the unique index
C24_Witness ==
    /\ proc.kind = "register"
    /\ CallsFor("other") = DOMAIN proc.call
    /\ Cardinality(Answered("other", 201)) = 1
    /\ Cardinality({c \in Answered("other", 409) :
                        proc.call[c].res.message = "Duplicate value for email"}) = 2


(* ---- C25 ---- *)

\* C25: a principal created through register has role USER whatever the
\* request body carries, the token returned says USER, and no step of
\* register, login or changePassword creates a principal with role ADMIN or
\* turns a principal into one.
C25_RegisterCreatesUserOnly ==
    [][/\ (Current(req) = "register" /\ req'.res.statusCode = 201) =>
              /\ ~users[req.body.email].exists
              /\ users'[req.body.email].exists
              /\ users'[req.body.email].role = "USER"
              /\ req'.accessToken.role = "USER"
       /\ Current(req) \in {"register", "login", "changePassword"} =>
              \A e \in DOMAIN users :
                  /\ users'[e].role # users[e].role => users'[e].role = "USER"
                  /\ (users'[e].exists /\ users'[e].role = "ADMIN") =>
                        (users[e].exists /\ users'[e].gen = users[e].gen)]_vars

\* a register whose body carried role ADMIN was answered 201 and its row is USER
C25_Witness ==
    /\ req.state = "done"
    /\ req.route = "POST /api/auth/register"
    /\ req.body.role = "ADMIN"
    /\ req.res.statusCode = 201
    /\ users[req.body.email].exists
    /\ users[req.body.email].role = "USER"


(* ---- C26 ---- *)

\* the passwords a login for the email succeeds with against the store
LoginSucceedsWith(store, email) ==
    {pw \in Passwords : loginService(store, email, pw, now).error = NoErr}

\* C26: for an active principal login succeeds with exactly the password set
\* last by register or by a successful changePassword: a register and a
\* successful changePassword leave a store that logs in with the password
\* they set and no other, every other step keeps what the store logs in with
\* (a principal that stays active), and a login is answered 200 exactly when
\* the store logs in with its password.  A changePassword whose
\* currentPassword the store does not log in with is answered 401 and leaves
\* the store as it was.
C26_LoginWithLastSetPassword ==
    [][/\ (Current(req) = "register" /\ req'.res.statusCode = 201) =>
              LoginSucceedsWith(users', req.body.email) = {req.body.password}
       /\ (Current(req) = "changePassword" /\ req'.state = "done") =>
              LET e == findById(users, req.user.id) IN
              e # "none" /\ users[e].isActive =>
                 IF req.body.currentPassword \in LoginSucceedsWith(users, e)
                 THEN /\ req'.res.statusCode = 200
                      /\ LoginSucceedsWith(users', e) = {req.body.newPassword}
                 ELSE /\ req'.res.statusCode = 401
                      /\ users' = users
       /\ ~(Current(req) = "register" /\ req'.res.statusCode = 201)
            /\ ~(Current(req) = "changePassword" /\ req'.res.statusCode = 200) =>
              \A e \in Emails :
                  (/\ users[e].exists /\ users[e].isActive
                   /\ users'[e].exists /\ users'[e].isActive) =>
                      LoginSucceedsWith(users', e) = LoginSucceedsWith(users, e)
       /\ (Current(req) = "login" /\ req'.state = "done") =>
              /\ req'.res.statusCode = 200 <=>
                    req.body.password \in LoginSucceedsWith(users, req.body.email)
              /\ req'.res.statusCode = 200 <=> req'.accessToken # NoToken]_vars

\* the seeded principal logged in with the password a changePassword set
C26_Witness ==
    /\ req.state = "done"
    /\ req.route = "POST /api/auth/login"
    /\ req.res.statusCode = 200
    /\ req.body.email = "user"
    /\ req.body.password = "pw2"
    /\ users["user"].gen = 0


(* ---- C30 ---- *)

Summed == fn.kind = "sum_to_n" /\ fn.done

\* 1 + 2 + ... + n
RECURSIVE SumOneTo(_)
SumOneTo(n) == IF n < 1 THEN 0 ELSE SumOneTo(n - 1) + n

\* C30: sum_to_n_a, sum_to_n_b and sum_to_n_c return the same value for
\* every integer n of the range, negative, zero and positive, and for
\* n >= 1 that value is 1 + 2 + ... + n.
C30_ThreeSumsAgree ==
    Summed =>
        /\ fn.out.a = fn.out.b
        /\ fn.out.b = fn.out.c
        /\ fn.arg >= 1 => fn.out.a = SumOneTo(fn.arg)

\* From zero on the three agree and return 1 + 2 + ... + n (0 for n = 0).
C30_ThreeSumsAgreeFromZero ==
    Summed /\ fn.arg >= 0 =>
        /\ fn.out.a = SumOneTo(fn.arg)
        /\ fn.out.b = SumOneTo(fn.arg)
        /\ fn.out.c = SumOneTo(fn.arg)

\* Below zero sum_to_n_b returns 0, sum_to_n_c returns n and sum_to_n_a
\* returns the sum 1 + ... + (-n - 1).
C30_BelowZeroTheyDiffer ==
    Summed /\ fn.arg < 0 =>
        /\ fn.out.b = 0
        /\ fn.out.c = fn.arg
        /\ fn.out.a = SumOneTo(0 - fn.arg - 1)


(* ---- C29 ---- *)

\* every container kept is of the kind it was: an array is an array of the
\* same length whose items correspond in order, an object is an object
RECURSIVE ShapeKept(_, _)
ShapeKept(in, out) ==
    CASE in.t = "array" ->
            /\ out.t = "array"
            /\ Len(out.items) = Len(in.items)
            /\ \A i \in 1..Len(in.items) : ShapeKept(in.items[i], out.items[i])
      [] in.t = "object" ->
            /\ out.t = "object"
            /\ \A k \in DOMAIN out.kv :
                  k \in DOMAIN in.kv /\ ShapeKept(in.kv[k], out.kv[k])
      [] OTHER -> out.t = in.t

\* some array of the value, at any depth, has an array as an item
RECURSIVE HasArrayInArray(_)
HasArrayInArray(v) ==
    CASE v.t = "object" -> \E k \in DOMAIN v.kv : HasArrayInArray(v.kv[k])
      [] v.t = "array" ->
            \E i \in 1..Len(v.items) : v.items[i].t = "array" \/ HasArrayInArray(v.items[i])
      [] OTHER -> FALSE

\* C29: the key sanitizer keeps the shape of every container it keeps, at
\* every depth, an array nested directly in an array and a body that is
\* itself an array included.
C29_ContainerShapeKept == Sanitized => ShapeKept(fn.arg, fn.out)

\* C29 for a body that is an object and holds no array directly in an array
C29_ShapeKeptWithoutArrayInArray ==
    Sanitized /\ fn.arg.t = "object" /\ ~HasArrayInArray(fn.arg) => ShapeKept(fn.arg, fn.out)

\* A body that is an array comes out as an object.
C29_ArrayBodyBecomesObject ==
    Sanitized /\ fn.arg.t = "array" => fn.out.t = "object"


(* ---- C27 ---- *)

\* C27: once SIGTERM, SIGINT, an uncaught exception or an unhandled
\* rejection has arrived the process eventually exits, repeated signals
\* included; it exits with code 0 only when the server has closed and the
\* database has disconnected, and with code 1 only when the disconnect
\* failed or a force timer fired first.
C27_ShutdownAlwaysExits ==
    /\ [](proc.kind = "server" =>
            /\ proc.exit = "0" =>
                  /\ ~proc.listening /\ proc.connections = 0
                  /\ proc.database = "disconnected" /\ ~proc.forced
            /\ proc.exit = "1" =>
                  /\ proc.database = "failed" \/ proc.forced
                  /\ proc.forced => \E i \in 1..Len(proc.timers) : proc.timers[i] = 0
            /\ proc.exit = "none" => proc.database = "connected" /\ ~proc.forced)
    /\ (proc.kind = "server" /\ proc.signals # <<>>) ~> (proc.exit \in {"0", "1"})

\* three signals arrived, a client kept its connection, and the first force
\* timer ended the process with code 1
C27_Witness ==
    /\ proc.kind = "server"
    /\ Len(proc.signals) = MaxSignals
    /\ proc.connections > 0
    /\ proc.forced /\ proc.exit = "1"

\* ... or the server closed, the database disconnected and the exit code is 0
\* while the force timers were still running
C27_WitnessGraceful ==
    /\ proc.kind = "server"
    /\ Len(proc.signals) > 1
    /\ proc.exit = "0"
    /\ \A i \in 1..Len(proc.timers) : proc.timers[i] > 0


====
